---- MODULE Spec2Model ----
(***************************************************************************)
(* A model of Dataviz.ts: the data transformation helpers (classifier,     *)
(* filter, outlier removal, normalization, aggregation, sort), the         *)
(* JavaScript value semantics they rest on, and the Setup / updateChart    *)
(* state machine that composes them.                                       *)
(*                                                                         *)
(* JavaScript values are records [k, n, d, s]:                             *)
(*   k = "num"   a finite number, the rational n/d in lowest terms, d > 0  *)
(*   k = "nan"   NaN                                                       *)
(*   k = "inf"   +Infinity (n = 1) or -Infinity (n = -1)                   *)
(*   k = "str"   a string, s its sequence of character codes               *)
(*   k = "bool"  false (n = 0) or true (n = 1)                             *)
(*   k = "null"  null                                                      *)
(*   k = "undef" undefined, which is also what reading an absent           *)
(*               property gives                                            *)
(* Finite numbers are exact rationals; the rounding of IEEE doubles is not *)
(* modelled.                                                               *)
(***************************************************************************)
EXTENDS Integers, Sequences, FiniteSets, TLC

(***************************************************************************)
(* Values                                                                  *)
(***************************************************************************)

RECURSIVE GCD(_, _)
GCD(a, b) == IF b = 0 THEN a ELSE GCD(b, a % b)

Abs(x) == IF x < 0 THEN -x ELSE x

Sign(x) == IF x < 0 THEN -1 ELSE IF x > 0 THEN 1 ELSE 0

Frac(n, d) ==
    LET g  == GCD(Abs(n), Abs(d))
        sg == IF d < 0 THEN -1 ELSE 1
    IN  [k |-> "num", n |-> sg * (n \div g), d |-> sg * (d \div g), s |-> <<>>]

Num(n) == [k |-> "num", n |-> n, d |-> 1, s |-> <<>>]

NaN == [k |-> "nan", n |-> 0, d |-> 1, s |-> <<>>]

Inf(sg) == [k |-> "inf", n |-> sg, d |-> 1, s |-> <<>>]

Str(s) == [k |-> "str", n |-> 0, d |-> 1, s |-> s]

Bool(b) == [k |-> "bool", n |-> IF b THEN 1 ELSE 0, d |-> 1, s |-> <<>>]

Null == [k |-> "null", n |-> 0, d |-> 1, s |-> <<>>]

Undef == [k |-> "undef", n |-> 0, d |-> 1, s |-> <<>>]

\* typeof v
TypeOf(v) ==
    CASE v.k \in {"num", "nan", "inf"} -> "number"
      [] v.k = "str"   -> "string"
      [] v.k = "bool"  -> "boolean"
      [] v.k = "undef" -> "undefined"
      [] OTHER         -> "object"

\* v == null  (true of null and of undefined)
IsNullish(v) == v.k \in {"null", "undef"}

(***************************************************************************)
(* Strings: sequences of character codes                                   *)
(***************************************************************************)

ChMinus == 45
ChDot   == 46
Ch0     == 48
Ch9     == 57

IsDigit(c) == c >= Ch0 /\ c <= Ch9

StrNaN       == <<78, 97, 78>>
StrInfinity  == <<73, 110, 102, 105, 110, 105, 116, 121>>
StrNull      == <<110, 117, 108, 108>>
StrUndefined == <<117, 110, 100, 101, 102, 105, 110, 101, 100>>
StrTrue      == <<116, 114, 117, 101>>
StrFalse     == <<102, 97, 108, 115, 101>>

RECURSIVE NatDigits(_)
NatDigits(n) ==
    IF n < 10 THEN <<Ch0 + n>> ELSE Append(NatDigits(n \div 10), Ch0 + (n % 10))

\* The decimal digits of rem/d after the point, at most `left` of them.
RECURSIVE FracDigits(_, _, _)
FracDigits(rem, d, left) ==
    IF rem = 0 \/ left = 0 THEN <<>>
    ELSE <<Ch0 + ((rem * 10) \div d)>> \o FracDigits((rem * 10) % d, d, left - 1)

MaxFracDigits == 16

\* String(v) for a number v.
NumToString(v) ==
    CASE v.k = "nan" -> StrNaN
      [] v.k = "inf" -> (IF v.n < 0 THEN <<ChMinus>> ELSE <<>>) \o StrInfinity
      [] OTHER ->
            LET a    == Abs(v.n)
                int  == NatDigits(a \div v.d)
                frac == FracDigits(a % v.d, v.d, MaxFracDigits)
            IN  (IF v.n < 0 THEN <<ChMinus>> ELSE <<>>) \o int
                \o (IF frac = <<>> THEN <<>> ELSE <<ChDot>> \o frac)

\* String(v)
ToStringJS(v) ==
    CASE v.k = "str"   -> v.s
      [] v.k = "null"  -> StrNull
      [] v.k = "undef" -> StrUndefined
      [] v.k = "bool"  -> (IF v.n = 1 THEN StrTrue ELSE StrFalse)
      [] OTHER         -> NumToString(v)

RECURSIVE DigitsValue(_)
DigitsValue(s) ==
    IF s = <<>> THEN 0
    ELSE 10 * DigitsValue(SubSeq(s, 1, Len(s) - 1)) + (s[Len(s)] - Ch0)

RECURSIVE Pow10(_)
Pow10(n) == IF n = 0 THEN 1 ELSE 10 * Pow10(n - 1)

AllDigits(s) == \A i \in 1..Len(s) : IsDigit(s[i])

\* An unsigned decimal literal: digits, optionally a point and more digits.
UnsignedValue(s) ==
    LET dots == {i \in 1..Len(s) : s[i] = ChDot}
    IN  IF dots = {} THEN
            IF s # <<>> /\ AllDigits(s) THEN Num(DigitsValue(s)) ELSE NaN
        ELSE IF Cardinality(dots) > 1 THEN NaN
        ELSE LET p  == CHOOSE i \in dots : TRUE
                 ip == SubSeq(s, 1, p - 1)
                 fp == SubSeq(s, p + 1, Len(s))
             IN  IF (ip = <<>> /\ fp = <<>>) \/ ~AllDigits(ip) \/ ~AllDigits(fp)
                 THEN NaN
                 ELSE Frac(DigitsValue(ip) * Pow10(Len(fp)) + DigitsValue(fp),
                           Pow10(Len(fp)))

Neg(v) ==
    CASE v.k = "num" -> [v EXCEPT !.n = -v.n]
      [] v.k = "inf" -> Inf(-v.n)
      [] OTHER       -> v

\* Number(s) for a string s (decimal literals; the empty string is 0).
StringToNumber(s) ==
    IF s = <<>> THEN Num(0)
    ELSE IF s[1] = ChMinus THEN Neg(UnsignedValue(Tail(s)))
    ELSE UnsignedValue(s)

\* ToNumber(v): the coercion of the arithmetic and relational operators.
ToNumber(v) ==
    CASE v.k \in {"num", "nan", "inf"} -> v
      [] v.k = "null"  -> Num(0)
      [] v.k = "undef" -> NaN
      [] v.k = "bool"  -> Num(v.n)
      [] OTHER         -> StringToNumber(v.s)

\* The global isNaN(v)
IsNaNJS(v) == ToNumber(v).k = "nan"

(***************************************************************************)
(* Arithmetic and comparison on numbers (operands are "num", "nan", "inf") *)
(***************************************************************************)

NumSign(a) == IF a.k = "inf" THEN a.n ELSE Sign(a.n)

NumAdd(a, b) ==
    CASE a.k = "nan" \/ b.k = "nan" -> NaN
      [] a.k = "inf" /\ b.k = "inf" -> (IF a.n = b.n THEN a ELSE NaN)
      [] a.k = "inf" -> a
      [] b.k = "inf" -> b
      [] OTHER -> Frac(a.n * b.d + b.n * a.d, a.d * b.d)

NumSub(a, b) == NumAdd(a, Neg(b))

NumMul(a, b) ==
    CASE a.k = "nan" \/ b.k = "nan" -> NaN
      [] a.k = "inf" \/ b.k = "inf" ->
            (IF NumSign(a) * NumSign(b) = 0 THEN NaN ELSE Inf(NumSign(a) * NumSign(b)))
      [] OTHER -> Frac(a.n * b.n, a.d * b.d)

\* A zero divisor is taken as +0.
NumDiv(a, b) ==
    CASE a.k = "nan" \/ b.k = "nan" -> NaN
      [] a.k = "inf" /\ b.k = "inf" -> NaN
      [] a.k = "inf" -> Inf(a.n * (IF NumSign(b) < 0 THEN -1 ELSE 1))
      [] b.k = "inf" -> Num(0)
      [] b.n = 0 -> (IF a.n = 0 THEN NaN ELSE Inf(Sign(a.n)))
      [] OTHER -> Frac(a.n * b.d, a.d * b.n)

\* a < b on numbers; false when either is NaN.
NumLess(a, b) ==
    CASE a.k = "nan" \/ b.k = "nan" -> FALSE
      [] a.k = "inf" /\ b.k = "inf" -> a.n < b.n
      [] a.k = "inf" -> a.n < 0
      [] b.k = "inf" -> b.n > 0
      [] OTHER -> a.n * b.d < b.n * a.d

\* a === b on numbers (NaN differs from itself).
NumEq(a, b) == a.k # "nan" /\ b.k # "nan" /\ a = b

\* The operators a - b, a * b, a / b on any values.
JSSub(a, b) == NumSub(ToNumber(a), ToNumber(b))
JSMul(a, b) == NumMul(ToNumber(a), ToNumber(b))
JSDiv(a, b) == NumDiv(ToNumber(a), ToNumber(b))

RECURSIVE SeqLess(_, _)
SeqLess(s, t) ==
    IF t = <<>> THEN FALSE
    ELSE IF s = <<>> THEN TRUE
    ELSE IF s[1] # t[1] THEN s[1] < t[1]
    ELSE SeqLess(Tail(s), Tail(t))

\* a < b: two strings compare by code units, anything else as numbers.
JSLess(a, b) ==
    IF a.k = "str" /\ b.k = "str" THEN SeqLess(a.s, b.s)
    ELSE NumLess(ToNumber(a), ToNumber(b))

JSGreater(a, b) == JSLess(b, a)

\* a <= b: not (b < a), and false when the comparison is undefined (NaN).
JSLessEq(a, b) ==
    IF a.k = "str" /\ b.k = "str" THEN ~SeqLess(b.s, a.s)
    ELSE LET x == ToNumber(a)
             y == ToNumber(b)
         IN  x.k # "nan" /\ y.k # "nan" /\ ~NumLess(y, x)

JSGreaterEq(a, b) == JSLessEq(b, a)

\* a === b
JSStrictEq(a, b) ==
    IF TypeOf(a) = "number" /\ TypeOf(b) = "number" THEN NumEq(a, b) ELSE a = b

\* a == b (loose equality)
JSLooseEq(a, b) ==
    CASE IsNullish(a) \/ IsNullish(b) -> IsNullish(a) /\ IsNullish(b)
      [] a.k = "str" /\ b.k = "str"   -> a.s = b.s
      [] OTHER -> NumEq(ToNumber(a), ToNumber(b))

\* The sign a sort comparator's result is read as: NaN counts as +0.
CmpSign(v) == IF v.k = "nan" THEN 0 ELSE NumSign(v)

\* The collation weight of a character: letters compare without case first.
Fold(c) == IF c >= 65 /\ c <= 90 THEN c + 32 ELSE c

\* a.localeCompare(b) as a sign, for strings of punctuation, digits and
\* letters: by folded characters, and lower case first among equals.
LocaleCompare(s, t) ==
    LET fs == [i \in 1..Len(s) |-> Fold(s[i])]
        ft == [i \in 1..Len(t) |-> Fold(t[i])]
    IN  IF SeqLess(fs, ft) THEN -1
        ELSE IF SeqLess(ft, fs) THEN 1
        ELSE IF s = t THEN 0
        ELSE IF SeqLess(t, s) THEN -1 ELSE 1

(***************************************************************************)
(* Math.min(...values) and Math.max(...values)                             *)
(***************************************************************************)

RECURSIVE MathMin(_)
MathMin(vs) ==
    IF vs = <<>> THEN Inf(1)
    ELSE LET x == ToNumber(vs[1])
             m == MathMin(Tail(vs))
         IN  IF x.k = "nan" \/ m.k = "nan" THEN NaN
             ELSE IF NumLess(x, m) THEN x ELSE m

RECURSIVE MathMax(_)
MathMax(vs) ==
    IF vs = <<>> THEN Inf(-1)
    ELSE LET x == ToNumber(vs[1])
             m == MathMax(Tail(vs))
         IN  IF x.k = "nan" \/ m.k = "nan" THEN NaN
             ELSE IF NumLess(m, x) THEN x ELSE m

(***************************************************************************)
(* Array.prototype.sort                                                    *)
(***************************************************************************)

Perms(n) == {f \in [1..n -> 1..n] : \A i, j \in 1..n : f[i] = f[j] => i = j}

\* A comparator given as a matrix c[i][j] of signs over the positions of the
\* array is consistent when it orders them as a total preorder.
Consistent(n, c) ==
    /\ \A i \in 1..n : c[i][i] = 0
    /\ \A i, j \in 1..n : c[i][j] = -c[j][i]
    /\ \A i, j, l \in 1..n :
          /\ (c[i][j] = 0 /\ c[j][l] = 0) => c[i][l] = 0
          /\ (c[i][j] < 0 /\ c[j][l] < 0) => c[i][l] < 0

\* The orders sort may leave n elements in, as maps from result position to
\* input position: the stable ascending order when the comparator is
\* consistent, and any order at all (implementation-defined) when it is not.
SortOrders(n, c) ==
    UNION {IF Consistent(n, m) THEN
               LET rank(i) ==
                       Cardinality({j \in 1..n : m[j][i] < 0 \/ (m[j][i] = 0 /\ j < i)}) + 1
               IN  {[p \in 1..n |-> CHOOSE i \in 1..n : rank(i) = p]}
           ELSE Perms(n)
           : m \in {c}}

Permute(s, f) == [p \in 1..Len(s) |-> s[f[p]]]

SelectSeqIdx(s, Keep(_)) ==
    LET F[i \in 0..Len(s)] ==
            IF i = 0 THEN <<>>
            ELSE IF Keep(i) THEN Append(F[i - 1], s[i]) ELSE F[i - 1]
    IN  F[Len(s)]

\* a + b: concatenation when either operand is a string, addition otherwise.
JSAdd(a, b) ==
    IF a.k = "str" \/ b.k = "str" THEN Str(ToStringJS(a) \o ToStringJS(b))
    ELSE NumAdd(ToNumber(a), ToNumber(b))

(***************************************************************************)
(* The heap: arrays hold references to objects, so that two arrays can     *)
(* share records and a write through one is seen through the other.        *)
(*   h.arr[a]  the object ids held by array a, in order                    *)
(*   h.obj[o]  object o: a function from its property names to values      *)
(* A function that allocates returns [h |-> the new heap, r |-> the array  *)
(* it returns].                                                            *)
(***************************************************************************)

EmptyHeap == [arr |-> <<>>, obj |-> <<>>]

\* o[f], undefined when o has no property f
Get(o, f) == IF f \in DOMAIN o THEN o[f] ELSE Undef

\* o[f] = v
Put(o, f, v) == [g \in (DOMAIN o) \cup {f} |-> IF g = f THEN v ELSE o[g]]

\* The records of array a, by value.
Deref(h, a) == [i \in 1..Len(h.arr[a]) |-> h.obj[h.arr[a][i]]]

AllocObjs(h, objs) == [h EXCEPT !.obj = @ \o objs]

NewIds(h, n) == [i \in 1..n |-> Len(h.obj) + i]

AllocArray(h, ids) == [h |-> [h EXCEPT !.arr = Append(@, ids)], r |-> Len(h.arr) + 1]

\* JSON.stringify writes NaN and the infinities as null and leaves out a
\* property whose value is undefined.
JSONValue(v) == IF v.k \in {"nan", "inf"} THEN Null ELSE v

JSONObject(o) == [f \in {g \in DOMAIN o : o[g].k # "undef"} |-> JSONValue(o[f])]

\* JSONClone that hands back the array it was given: no copy is made.
JSONClone_Alias(h, a) == [h |-> h, r |-> a]

\* JSON.parse(JSON.stringify(data)): a new array of new objects.
JSONClone(h, a) ==
    LET objs == [i \in 1..Len(h.arr[a]) |-> JSONObject(h.obj[h.arr[a][i]])]
    IN  AllocArray(AllocObjs(h, objs), NewIds(h, Len(objs)))

(***************************************************************************)
(* identifyNumericColumns                                                  *)
(***************************************************************************)

\* types[index], undefined past the end of the list
TypeAt(types, index) == IF index <= Len(types) THEN types[index] ELSE "undefined"

\* identifyNumericColumns with data.some in the place of data.every.
identifyNumericColumns_Some(data, features, types) ==
    SelectSeqIdx(features,
        LAMBDA index :
            IF TypeAt(types, index) = "number" THEN TRUE
            ELSE IF TypeAt(types, index) = "enum" THEN
                \E i \in 1..Len(data) : TypeOf(Get(data[i], features[index])) = "number"
            ELSE FALSE)

identifyNumericColumns(data, features, types) ==
    SelectSeqIdx(features,
        LAMBDA index :
            IF TypeAt(types, index) = "number" THEN TRUE
            ELSE IF TypeAt(types, index) = "enum" THEN
                \A i \in 1..Len(data) : TypeOf(Get(data[i], features[index])) = "number"
            ELSE FALSE)

(***************************************************************************)
(* applyFiltering                                                          *)
(***************************************************************************)

\* FilterHolds without the test for a null or absent value.
FilterHolds_NoNullTest(d, fil) ==
    LET rowVal == Get(d, fil.column)
    IN  CASE fil.operator = "=="  -> JSLooseEq(rowVal, fil.value)
          [] fil.operator = "<"   -> JSLess(rowVal, ToNumber(fil.value))
          [] fil.operator = "<="  -> JSLessEq(rowVal, ToNumber(fil.value))
          [] fil.operator = ">"   -> JSGreater(rowVal, ToNumber(fil.value))
          [] fil.operator = ">="  -> JSGreaterEq(rowVal, ToNumber(fil.value))
          [] OTHER                -> TRUE

\* FilterHolds with the default case of the switch returning false.
FilterHolds_UnknownFails(d, fil) ==
    LET rowVal == Get(d, fil.column)
    IN  IF IsNullish(rowVal) THEN FALSE
        ELSE CASE fil.operator = "=="  -> JSLooseEq(rowVal, fil.value)
               [] fil.operator = "<"   -> JSLess(rowVal, ToNumber(fil.value))
               [] fil.operator = "<="  -> JSLessEq(rowVal, ToNumber(fil.value))
               [] fil.operator = ">"   -> JSGreater(rowVal, ToNumber(fil.value))
               [] fil.operator = ">="  -> JSGreaterEq(rowVal, ToNumber(fil.value))
               [] OTHER                -> FALSE

\* The callback of filters.every for record d and filter fil.
FilterHolds(d, fil) ==
    LET rowVal == Get(d, fil.column)
    IN  IF IsNullish(rowVal) THEN FALSE
        ELSE CASE fil.operator = "=="  -> JSLooseEq(rowVal, fil.value)
               [] fil.operator = "<"   -> JSLess(rowVal, ToNumber(fil.value))
               [] fil.operator = "<="  -> JSLessEq(rowVal, ToNumber(fil.value))
               [] fil.operator = ">"   -> JSGreater(rowVal, ToNumber(fil.value))
               [] fil.operator = ">="  -> JSGreaterEq(rowVal, ToNumber(fil.value))
               [] OTHER                -> TRUE

\* PassesFilters with filters.some in the place of filters.every.
PassesFilters_Some(d, filters) == \E k \in 1..Len(filters) : FilterHolds(d, filters[k])

\* The callback of data.filter: filters.every(...)
PassesFilters(d, filters) == \A k \in 1..Len(filters) : FilterHolds(d, filters[k])

\* data.filter(...): a new array that shares the kept records with data.
applyFiltering(h, a, filters) ==
    AllocArray(h, SelectSeqIdx(h.arr[a],
                               LAMBDA i : PassesFilters(h.obj[h.arr[a][i]], filters)))

(***************************************************************************)
(* removeOutliers                                                          *)
(***************************************************************************)

DefaultThreshold == Frac(3, 2)

\* The orders [...values].sort((a, b) => a - b) may give: undefined values go
\* last without being compared, the others are ordered by the comparator.
SortedValuesOutcomes(values) ==
    LET def == SelectSeq(values, LAMBDA v : v.k # "undef")
        und == SelectSeq(values, LAMBDA v : v.k = "undef")
        n   == Len(def)
        c   == [i \in 1..n |-> [j \in 1..n |-> CmpSign(JSSub(def[i], def[j]))]]
    IN  {Permute(def, f) \o und : f \in SortOrders(n, c)}

\* arr[idx] for a zero-based index, undefined when out of range
At0(arr, idx) == IF idx + 1 <= Len(arr) THEN arr[idx + 1] ELSE Undef

\* IsOutlier with the test of the bounds negated.
IsOutlier_Negated(value, sortedValues, threshold) ==
    LET Q1         == At0(sortedValues, Len(sortedValues) \div 4)
        Q3         == At0(sortedValues, (Len(sortedValues) * 3) \div 4)
        IQR        == JSSub(Q3, Q1)
        lowerBound == JSSub(Q1, JSMul(threshold, IQR))
        upperBound == JSAdd(Q3, JSMul(threshold, IQR))
    IN  ~(JSLess(value, lowerBound) \/ JSGreater(value, upperBound))

\* IsOutlier with Q3 taken at the middle of the sorted values.
IsOutlier_Q3AtHalf(value, sortedValues, threshold) ==
    LET Q1         == At0(sortedValues, Len(sortedValues) \div 4)
        Q3         == At0(sortedValues, Len(sortedValues) \div 2)
        IQR        == JSSub(Q3, Q1)
        lowerBound == JSSub(Q1, JSMul(threshold, IQR))
        upperBound == JSAdd(Q3, JSMul(threshold, IQR))
    IN  JSLess(value, lowerBound) \/ JSGreater(value, upperBound)

\* Whether the loop splices a record with this value out.
IsOutlier(value, sortedValues, threshold) ==
    LET Q1         == At0(sortedValues, Len(sortedValues) \div 4)
        Q3         == At0(sortedValues, (Len(sortedValues) * 3) \div 4)
        IQR        == JSSub(Q3, Q1)
        lowerBound == JSSub(Q1, JSMul(threshold, IQR))
        upperBound == JSAdd(Q3, JSMul(threshold, IQR))
    IN  JSLess(value, lowerBound) \/ JSGreater(value, upperBound)

\* One pass of numericFeatures.forEach on the working array r, which is
\* spliced in place: the heaps it may leave.
OutlierStep(h, r, feature, threshold) ==
    LET values == [i \in 1..Len(h.arr[r]) |-> Get(h.obj[h.arr[r][i]], feature)]
    IN  {[h EXCEPT !.arr[r] =
            SelectSeqIdx(h.arr[r], LAMBDA i : ~IsOutlier(values[i], sv, threshold))]
         : sv \in SortedValuesOutcomes(values)}

RECURSIVE OutlierLoop(_, _, _, _, _)
OutlierLoop(h, r, numericFeatures, threshold, k) ==
    IF k > Len(numericFeatures) THEN {h}
    ELSE UNION {OutlierLoop(h2, r, numericFeatures, threshold, k + 1)
                : h2 \in OutlierStep(h, r, numericFeatures[k], threshold)}

\* The results removeOutliers may return, each [h, r].
removeOutliers(h, a, numericFeatures, threshold) ==
    LET filteredData == JSONClone(h, a)
        t == IF threshold.k = "undef" THEN DefaultThreshold ELSE threshold
    IN  {[h |-> h2, r |-> filteredData.r]
         : h2 \in OutlierLoop(filteredData.h, filteredData.r, numericFeatures, t, 1)}

(***************************************************************************)
(* applyNormalization                                                      *)
(***************************************************************************)

\* normalizedData.forEach(datum => datum[feature] = (datum[feature]-min)/(max-min))
\* over the first i records of array r.
RECURSIVE NormalizeEach(_, _, _, _, _, _)
NormalizeEach(h, r, feature, min, max, i) ==
    IF i = 0 THEN h
    ELSE LET h1 == NormalizeEach(h, r, feature, min, max, i - 1)
             o  == h1.arr[r][i]
         IN  [h1 EXCEPT !.obj[o] =
                 Put(@, feature, NumDiv(JSSub(Get(@, feature), min), NumSub(max, min)))]

NormalizeStep(h, r, feature) ==
    LET values == [i \in 1..Len(h.arr[r]) |-> Get(h.obj[h.arr[r][i]], feature)]
        min    == MathMin(values)
        max    == MathMax(values)
    IN  IF ~JSStrictEq(min, max)
        THEN NormalizeEach(h, r, feature, min, max, Len(h.arr[r]))
        ELSE h

RECURSIVE NormalizeLoop(_, _, _, _)
NormalizeLoop(h, r, numericFeatures, k) ==
    IF k > Len(numericFeatures) THEN h
    ELSE NormalizeLoop(NormalizeStep(h, r, numericFeatures[k]), r, numericFeatures, k + 1)

applyNormalization(h, a, numericFeatures) ==
    LET normalizedData == JSONClone(h, a)
    IN  [h |-> NormalizeLoop(normalizedData.h, normalizedData.r, numericFeatures, 1),
         r |-> normalizedData.r]

(***************************************************************************)
(* aggregateData                                                           *)
(***************************************************************************)

\* The test that lets a row into groupsMap.
AggregateValid(row, groupFeature, numericFeature) ==
    LET g   == Get(row, groupFeature)
        val == Get(row, numericFeature)
    IN  ~(IsNullish(g) \/ IsNullish(val) \/ TypeOf(val) # "number" \/ val.k = "nan")

\* groupKey: numbers and strings as they are, anything else as String(g).
GroupKey(g) == IF TypeOf(g) \in {"number", "string"} THEN g ELSE Str(ToStringJS(g))

\* groupsMap after the first i rows: a sequence of [key, values] in the
\* order the keys were first seen (the iteration order of a Map).
RECURSIVE GroupsMap(_, _, _, _)
GroupsMap(data, groupFeature, numericFeature, i) ==
    IF i = 0 THEN <<>>
    ELSE LET m   == GroupsMap(data, groupFeature, numericFeature, i - 1)
             row == data[i]
             key == GroupKey(Get(row, groupFeature))
             val == Get(row, numericFeature)
             at  == {p \in 1..Len(m) : m[p].key = key}
         IN  IF ~AggregateValid(row, groupFeature, numericFeature) THEN m
             ELSE IF at = {} THEN Append(m, [key |-> key, values |-> <<val>>])
             ELSE [m EXCEPT ![CHOOSE p \in at : TRUE].values = Append(@, val)]

\* values.reduce((sum, v) => sum + v, 0)
RECURSIVE SumOf(_)
SumOf(values) ==
    IF values = <<>> THEN Num(0)
    ELSE NumAdd(SumOf(SubSeq(values, 1, Len(values) - 1)), values[Len(values)])

\* [...values].sort((a, b) => a - b) on numbers other than NaN, for which
\* the comparator is consistent.
SortedNumbers(values) ==
    LET n == Len(values)
        c == [i \in 1..n |-> [j \in 1..n |-> CmpSign(NumSub(values[i], values[j]))]]
    IN  Permute(values, CHOOSE f \in SortOrders(n, c) : TRUE)

Average(values) == NumDiv(SumOf(values), Num(Len(values)))

Median(values) ==
    LET sortedVals == SortedNumbers(values)
        mid        == Len(sortedVals) \div 2
    IN  IF Len(sortedVals) % 2 = 0
        THEN NumDiv(NumAdd(At0(sortedVals, mid - 1), At0(sortedVals, mid)), Num(2))
        ELSE At0(sortedVals, mid)

\* AggregatedValue with the sum as the default case of the switch.
AggregatedValue_DefaultSum(values, method) ==
    CASE method = "sum"     -> SumOf(values)
      [] method = "average" -> Average(values)
      [] method = "median"  -> Median(values)
      [] method = "min"     -> MathMin(values)
      [] method = "max"     -> MathMax(values)
      [] OTHER              -> SumOf(values)

\* AggregatedValue with the median taken as the upper middle value.
AggregatedValue_UpperMedian(values, method) ==
    CASE method = "sum"     -> SumOf(values)
      [] method = "average" -> Average(values)
      [] method = "median"  -> At0(SortedNumbers(values), Len(values) \div 2)
      [] method = "min"     -> MathMin(values)
      [] method = "max"     -> MathMax(values)
      [] OTHER              -> Average(values)

\* The switch on method.
AggregatedValue(values, method) ==
    CASE method = "sum"     -> SumOf(values)
      [] method = "average" -> Average(values)
      [] method = "median"  -> Median(values)
      [] method = "min"     -> MathMin(values)
      [] method = "max"     -> MathMax(values)
      [] OTHER              -> Average(values)

\* GroupCompare with the operands exchanged: a descending order.
GroupCompare_Descending(a, b) ==
    IF TypeOf(a.group) = "number" /\ TypeOf(b.group) = "number"
    THEN CmpSign(NumSub(b.group, a.group))
    ELSE LocaleCompare(ToStringJS(b.group), ToStringJS(a.group))

\* The comparator of aggregatedData.sort, as a sign.
GroupCompare(a, b) ==
    IF TypeOf(a.group) = "number" /\ TypeOf(b.group) = "number"
    THEN CmpSign(NumSub(a.group, b.group))
    ELSE LocaleCompare(ToStringJS(a.group), ToStringJS(b.group))

\* aggregatedData before it is sorted: one {group, value} per entry of
\* groupsMap that holds a value.
AggregatedUnsorted(data, groupFeature, numericFeature, method) ==
    LET m    == GroupsMap(data, groupFeature, numericFeature, Len(data))
        used == SelectSeq(m, LAMBDA e : Len(e.values) # 0)
    IN  [p \in 1..Len(used) |->
            [group |-> used[p].key, value |-> AggregatedValue(used[p].values, method)]]

\* The arrays aggregateData may return, by value.
AggregateOutcomes(data, groupFeature, numericFeature, method) ==
    IF Len(data) = 0 THEN {<<>>}
    ELSE UNION {LET n == Len(agg)
                    c == [i \in 1..n |-> [j \in 1..n |-> GroupCompare(agg[i], agg[j])]]
                IN  {Permute(agg, f) : f \in SortOrders(n, c)}
                : agg \in {AggregatedUnsorted(data, groupFeature, numericFeature, method)}}

\* The results aggregateData may return, each [h, r]: a new array of new
\* objects; the input is only read.
aggregateData(h, a, groupFeature, numericFeature, method) ==
    {AllocArray(AllocObjs(h, out), NewIds(h, Len(out)))
     : out \in AggregateOutcomes(Deref(h, a), groupFeature, numericFeature, method)}

(***************************************************************************)
(* sortData                                                                *)
(***************************************************************************)

\* sortData's comparator with the order argument ignored.
SortCompare_Ascending(a, b, key, order) ==
    LET valA == Get(a, key)
        valB == Get(b, key)
    IN  IF TypeOf(valA) = "number" /\ TypeOf(valB) = "number" THEN
            CmpSign(NumSub(valA, valB))
        ELSE IF TypeOf(valA) = "string" /\ TypeOf(valB) = "string" THEN
            LocaleCompare(valA.s, valB.s)
        ELSE 0

\* The comparator of sortData, as a sign.
SortCompare(a, b, key, order) ==
    LET valA == Get(a, key)
        valB == Get(b, key)
    IN  IF TypeOf(valA) = "number" /\ TypeOf(valB) = "number" THEN
            (IF order = "asc" THEN CmpSign(NumSub(valA, valB))
                              ELSE CmpSign(NumSub(valB, valA)))
        ELSE IF TypeOf(valA) = "string" /\ TypeOf(valB) = "string" THEN
            (IF order = "asc" THEN LocaleCompare(valA.s, valB.s)
                              ELSE LocaleCompare(valB.s, valA.s))
        ELSE 0

\* The results sortData may return, each [h, r]: data itself when there is
\* no key or no record, else a sorted copy of the array (data.slice().sort)
\* that shares its records.
sortData(h, a, key, order) ==
    IF key = "" \/ Len(h.arr[a]) = 0 THEN {[h |-> h, r |-> a]}
    ELSE LET data == Deref(h, a)
             n    == Len(data)
             c    == [i \in 1..n |-> [j \in 1..n |->
                          SortCompare(data[i], data[j], key, order)]]
         IN  {AllocArray(h, Permute(h.arr[a], f)) : f \in SortOrders(n, c)}

(***************************************************************************)
(* State                                                                   *)
(***************************************************************************)

VARIABLES
    heap,       \* the arrays and records that exist
    ret,        \* the array the last call returned (at first: the dataset)
    retVal,     \* what the last call returned, by value
    arg,        \* the array the last call was given
    argBefore,  \* the records of arg, by value, as they were before the call
    call,       \* the function called last, "none" before the first call
    calls,      \* the number of calls made
    thrown,     \* the error the last call raised, "none" when it returned
    par,        \* the other arguments the calls are made with
    currentData,      \* Dataviz.currentData: the array it refers to
    currentFeatures,  \* Dataviz.currentFeatures
    currentTypes,     \* Dataviz.currentTypes
    controlsCreated,  \* Dataviz.controlsCreated
    chartDiv,         \* Dataviz.chartDiv: "null" or "div"
    closure,    \* the variables of the Setup call that registered the
                \* listeners: its numericFeatures, filters and data
    controls,   \* the values of the control elements
    filterUI,   \* createMultiFilterUI: filterRows, filtersMap, filterIdCounter
    setups,     \* the number of Setup calls made
    setupData,  \* the records passed to the last Setup call, by value
    last,       \* what the last updateChart invocation did
    console,    \* what console.error has written, in order
    config,     \* CONFIG: the rendering options the controls set
    dom,        \* how many controls surfaces, chart containers and sets of
                \* listeners have been created
    budget      \* the number of events the user still makes, -1: no limit

callVars == <<ret, retVal, arg, argBefore, call, calls, par, console>>

uiVars == <<currentData, currentFeatures, currentTypes, controlsCreated, chartDiv,
            closure, controls, filterUI, setups, setupData, last, config, dom, budget>>

vars == <<heap, thrown, callVars, uiVars>>

(***************************************************************************)
(* Calls of the transformation functions, each applied to the array the    *)
(* previous call returned.                                                 *)
(***************************************************************************)

MaxCalls == 2

\* An object with the properties of fn whose value is not undefined.
MkObj(fn) == [f \in {g \in DOMAIN fn : fn[g].k # "undef"} |-> fn[f]]

SeqsUpTo(S, n) == UNION {[1..m -> S] : m \in 0..n}

Range(s) == {s[i] : i \in 1..Len(s)}

\* The values the records of data hold for f.
Column(data, f) == [i \in 1..Len(data) |-> Get(data[i], f)]

HeapOf(objs) == AllocArray(AllocObjs(EmptyHeap, objs), NewIds(EmptyHeap, Len(objs))).h

\* The values of the control elements as createControlDiv leaves them.
DefaultControls ==
    [chartType |-> "", xFeature |-> "", yFeature |-> "",
     normalize |-> FALSE, removeOutliers |-> FALSE, outlierThreshold |-> <<49, 46, 53>>,
     applyAggregation |-> FALSE, aggregationMethod |-> "",
     rowFeature |-> "", colFeature |-> "", valueFeature |-> "",
     sortColumn |-> "", sortOrder |-> ""]

NoClosure == [numericFeatures |-> <<>>, features |-> <<>>, filters |-> <<>>, data |-> 0]

NoFilterUI == [filterRows |-> <<>>, filtersMap |-> <<>>, filterIdCounter |-> 0]

\* CONFIG as the file declares it (the options the listeners set).
DefaultConfig ==
    [fontSize |-> Num(12), color |-> "#1f77b4", seriesColor |-> "#1f77b4",
     colorMap |-> "viridis", maxBins |-> Num(20), stats |-> "false"]

NoDom == [controlsSurfaces |-> 0, chartContainers |-> 0, listenerSets |-> 0]

NoRender ==
    [kind |-> "none", stages |-> <<>>, source |-> <<>>, filters |-> <<>>,
     numericFeatures |-> <<>>, threshold |-> DefaultThreshold,
     read |-> DefaultControls, config |-> DefaultConfig,
     chart |-> "none", data |-> <<>>, area |-> "none"]

\* The static fields of Dataviz as the class declares them, before any
\* Setup call: currentData is an empty array of its own.
StaticsInitial ==
    /\ currentData = 0
    /\ currentFeatures = <<>>
    /\ currentTypes = <<>>
    /\ controlsCreated = FALSE
    /\ chartDiv = "null"
    /\ closure = NoClosure
    /\ controls = DefaultControls
    /\ filterUI = NoFilterUI
    /\ setups = 0
    /\ setupData = <<>>
    /\ last = NoRender
    /\ config = DefaultConfig
    /\ dom = NoDom

DefaultPar ==
    [numericFeatures |-> <<"x">>, threshold |-> DefaultThreshold, filters |-> <<>>,
     groupFeature |-> "x", numericFeature |-> "y", method |-> "average",
     key |-> "x", order |-> "asc", features |-> <<"x">>, types |-> <<"number">>]

StartWith(objs, p) ==
    /\ heap = HeapOf(objs)
    /\ ret = 1
    /\ retVal = objs
    /\ arg = 0
    /\ argBefore = <<>>
    /\ call = "none"
    /\ calls = 0
    /\ thrown = "none"
    /\ par = p
    /\ console = <<>>
    /\ budget = -1
    /\ StaticsInitial

Returned(name, out) ==
    /\ heap' = out.h
    /\ ret' = out.r
    /\ retVal' = Deref(out.h, out.r)
    /\ arg' = ret
    /\ argBefore' = Deref(heap, ret)
    /\ call' = name
    /\ calls' = calls + 1
    /\ thrown' = "none"
    /\ par' = par
    /\ UNCHANGED <<console, uiVars>>

CallRemoveOutliers ==
    /\ calls < MaxCalls
    /\ \E out \in removeOutliers(heap, ret, par.numericFeatures, par.threshold) :
          Returned("removeOutliers", out)

CallApplyNormalization ==
    /\ calls < MaxCalls
    /\ Returned("applyNormalization", applyNormalization(heap, ret, par.numericFeatures))

CallApplyFiltering ==
    /\ calls < MaxCalls
    /\ Returned("applyFiltering", applyFiltering(heap, ret, par.filters))

CallAggregateData ==
    /\ calls < MaxCalls
    /\ \E out \in aggregateData(heap, ret, par.groupFeature, par.numericFeature, par.method) :
          Returned("aggregateData", out)

CallSortData ==
    /\ calls < MaxCalls
    /\ \E out \in sortData(heap, ret, par.key, par.order) :
          Returned("sortData", out)

CallIdentifyNumericColumns ==
    /\ calls < MaxCalls
    /\ retVal' = identifyNumericColumns(Deref(heap, ret), par.features, par.types)
    /\ arg' = ret
    /\ argBefore' = Deref(heap, ret)
    /\ call' = "identifyNumericColumns"
    /\ calls' = calls + 1
    /\ thrown' = "none"
    /\ UNCHANGED <<heap, ret, par, console, uiVars>>

(***************************************************************************)
(* removeOutliers on its own                                               *)
(***************************************************************************)

MaxOutlierRecords == 5

MaxRecords == 4

OutlierNumbers == {Num(1), Num(2), Num(3)}

OutlierValues == OutlierNumbers \cup {Null, Undef}

OutlierThresholds == {Num(0), Num(1), DefaultThreshold}

ColumnX(vs) == [i \in 1..Len(vs) |-> MkObj([f \in {"x"} |-> vs[i]])]

\* Datasets with one column x: up to MaxOutlierRecords numbers, or up to
\* MaxRecords values some of which are null or missing.
InitOutliers ==
    \E vs \in SeqsUpTo(OutlierNumbers, MaxOutlierRecords)
              \cup SeqsUpTo(OutlierValues, MaxRecords),
       t \in OutlierThresholds :
        StartWith(ColumnX(vs), [DefaultPar EXCEPT !.threshold = t])

NextOutliers == CallRemoveOutliers

SpecOutliers == InitOutliers /\ [][NextOutliers]_vars

\* s is t with some elements left out, the others in the same order.
RECURSIVE IsSubsequence(_, _)
IsSubsequence(s, t) ==
    IF s = <<>> THEN TRUE
    ELSE IF t = <<>> THEN FALSE
    ELSE IF s[1] = t[1] THEN IsSubsequence(Tail(s), Tail(t))
    ELSE IsSubsequence(s, Tail(t))

C13_MissingExcluded ==
    (call = "removeOutliers" /\ calls = 1) =>
        /\ thrown = "none"
        /\ \A i \in 1..Len(retVal), k \in 1..Len(par.numericFeatures) :
              Get(retVal[i], par.numericFeatures[k]).k = "num"

(***************************************************************************)
(* removeOutliers on two columns of numbers                                *)
(***************************************************************************)

MaxColumnRecords == 5

ColumnNumbers == {Num(1), Num(2)}

ColumnObjects ==
    {MkObj([f \in {"x", "y"} |-> IF f = "x" THEN vx ELSE vy]) :
        vx \in ColumnNumbers, vy \in ColumnNumbers}

ColumnLists == {<<"x", "y">>, <<"y", "x">>}

ColumnThresholds == {Num(0), DefaultThreshold}

InitColumns ==
    \E objs \in SeqsUpTo(ColumnObjects, MaxColumnRecords),
       nf \in ColumnLists, t \in ColumnThresholds :
        StartWith(objs, [DefaultPar EXCEPT !.numericFeatures = nf, !.threshold = t])

NextColumns == CallRemoveOutliers

SpecColumns == InitColumns /\ [][NextColumns]_vars

\* The number at zero-based index k of the ascending order of the numbers
\* vals: at most k of them are smaller and more than k are not larger.
QuantileAt(vals, k) ==
    CHOOSE v \in Range(vals) :
        /\ Cardinality({i \in 1..Len(vals) : NumLess(vals[i], v)}) <= k
        /\ Cardinality({i \in 1..Len(vals) : ~NumLess(v, vals[i])}) > k

\* v lies in [Q1 - t*(Q3-Q1), Q3 + t*(Q3-Q1)].
InTukeyRange(v, Q1, Q3, t) ==
    /\ ~NumLess(v, NumSub(Q1, NumMul(t, NumSub(Q3, Q1))))
    /\ ~NumLess(NumAdd(Q3, NumMul(t, NumSub(Q3, Q1))), v)

\* The records of data that column f keeps.
KeptByColumn(data, f, t) ==
    IF data = <<>> THEN data
    ELSE LET vals == Column(data, f)
             Q1   == QuantileAt(vals, Len(vals) \div 4)
             Q3   == QuantileAt(vals, (3 * Len(vals)) \div 4)
         IN  SelectSeq(data, LAMBDA d : InTukeyRange(Get(d, f), Q1, Q3, t))

\* The records the columns fs[k], fs[k+1], ... keep, one after the other.
RECURSIVE KeptByColumns(_, _, _, _)
KeptByColumns(data, fs, t, k) ==
    IF k > Len(fs) THEN data
    ELSE KeptByColumns(KeptByColumn(data, fs[k], t), fs, t, k + 1)

\* C12: removeOutliers takes the columns in the order given, each on the
\* records the columns before it kept; for each it keeps exactly the records
\* whose value lies in [Q1 - t*(Q3-Q1), Q3 + t*(Q3-Q1)], Q1 and Q3 being the
\* values at the indices floor(n/4) and floor(3n/4) of the ascending order;
\* the result is a subsequence of the input.
C12_ColumnsInOrderCumulative ==
    (call = "removeOutliers" /\ calls = 1) =>
        /\ retVal = KeptByColumns(argBefore, par.numericFeatures, par.threshold, 1)
        /\ IsSubsequence(retVal, argBefore)

\* C12 witness: each of two columns, taken on the whole dataset, removes a
\* record of its own; the first column removed its record and the second,
\* on the three records left, removed none.
C12_Witness ==
    /\ call = "removeOutliers"
    /\ calls = 1
    /\ Len(par.numericFeatures) = 2
    /\ Len(argBefore) = 4
    /\ Len(retVal) = 3
    /\ retVal = KeptByColumn(argBefore, par.numericFeatures[1], par.threshold)
    /\ Len(KeptByColumn(argBefore, par.numericFeatures[2], par.threshold)) = 3
    /\ retVal # KeptByColumn(argBefore, par.numericFeatures[2], par.threshold)

(***************************************************************************)
(* applyNormalization on its own                                           *)
(***************************************************************************)

InitNormalize ==
    \E vs \in SeqsUpTo(OutlierValues, MaxRecords) : StartWith(ColumnX(vs), DefaultPar)

NextNormalize == CallApplyNormalization

SpecNormalize == InitNormalize /\ [][NextNormalize]_vars

IsFinite(v) == v.k = "num"

InUnitInterval(v) == IsFinite(v) /\ ~NumLess(v, Num(0)) /\ ~NumLess(Num(1), v)

\* C2 (as stated): after applyNormalization, a column of N whose numbers
\* are not all equal holds only values in [0,1], and any other column of N
\* is as it was; also when a record has no value or null in the column.
C2_Normalized ==
    (call = "applyNormalization" /\ calls = 1) =>
        \A k \in 1..Len(par.numericFeatures) :
            LET f    == par.numericFeatures[k]
                in   == Column(argBefore, f)
                out  == Column(retVal, f)
                nums == {in[i] : i \in {j \in 1..Len(in) : IsFinite(in[j])}}
            IN  IF Cardinality(nums) > 1
                THEN \A i \in 1..Len(out) : InUnitInterval(out[i])
                ELSE out = in

(***************************************************************************)
(* applyFiltering on its own                                               *)
(***************************************************************************)

MaxFilterRecords == 2

FilterRowValues == {Num(1), Num(2), Str(<<97>>), Null, Undef}

FilterOperators == {"==", "<", "<=", ">", ">=", "!="}

\* What the filter rows hold as value: the text of an input field.
FilterTexts == {Str(<<50>>), Str(<<97>>)}

Filters == [column : {"x"}, operator : FilterOperators, value : FilterTexts]

FilterLists == {<<>>} \cup {<<f>> : f \in Filters} \cup {<<f, g>> : f, g \in Filters}

InitFilter ==
    \E vs \in SeqsUpTo(FilterRowValues, MaxFilterRecords), fs \in FilterLists :
        StartWith(ColumnX(vs), [DefaultPar EXCEPT !.filters = fs])

NextFilter == CallApplyFiltering

SpecFilter == InitFilter /\ [][NextFilter]_vars

\* C3: applying the same filters a second time changes nothing, and the
\* empty filter list keeps every record, in order.
C3_FilterIdempotent ==
    /\ (call = "applyFiltering" /\ calls = 2) => retVal = argBefore
    /\ (call = "applyFiltering" /\ par.filters = <<>>) => retVal = argBefore

\* C3 witness: a first application removed a record and kept another, and a
\* second application has been made.
C3_Witness ==
    /\ call = "applyFiltering"
    /\ calls = 2
    /\ Len(retVal) > 0
    /\ Len(retVal) < Len(Deref(heap, 1))

\* The comparison a filter asks for, on a value that is present: loose
\* equality for ==, the numeric order against Number(filter.value) for the
\* ordering operators, and none (nothing to fail) for any other operator.
ComparisonFails(v, fil) ==
    LET c == ToNumber(fil.value)
        x == ToNumber(v)
    IN  CASE fil.operator = "=="  -> ~JSLooseEq(v, fil.value)
          [] fil.operator = "<"   -> ~NumLess(x, c)
          [] fil.operator = "<="  -> ~(NumLess(x, c) \/ NumEq(x, c))
          [] fil.operator = ">"   -> ~NumLess(c, x)
          [] fil.operator = ">="  -> ~(NumLess(c, x) \/ NumEq(x, c))
          [] OTHER                -> FALSE

Excluded(d, filters) ==
    \E k \in 1..Len(filters) :
        \/ IsNullish(Get(d, filters[k].column))
        \/ ComparisonFails(Get(d, filters[k].column), filters[k])

\* C10: applyFiltering returns, in their order, exactly the records that no
\* filter excludes; a filter excludes a record whose value for its column is
\* null or absent, or for which its comparison is false.
C10_FilterExact ==
    (call = "applyFiltering" /\ calls = 1 /\ thrown = "none") =>
        retVal = SelectSeq(argBefore, LAMBDA d : ~Excluded(d, par.filters))

\* C10 witness: two filters that kept one record and excluded another whose
\* value is null or absent.
C10_Witness ==
    /\ call = "applyFiltering"
    /\ calls = 1
    /\ Len(par.filters) = 2
    /\ Len(retVal) = 1
    /\ \E i \in 1..Len(argBefore) : IsNullish(Get(argBefore[i], "x"))

KnownOperators == {"==", "<", "<=", ">", ">="}

\* A call with one filter whose operator is none of ==, <, <=, >, >=.
UnknownOperatorCall ==
    /\ call = "applyFiltering"
    /\ calls = 1
    /\ Len(par.filters) = 1
    /\ par.filters[1].operator \notin KnownOperators

\* C11 (as stated): a single filter with an unknown operator returns every
\* record of the dataset.
C11_UnknownOperatorKeepsAll ==
    UnknownOperatorCall => retVal = argBefore

\* C11 (amended): a single filter with an unknown operator returns, in their
\* order, exactly the records whose value for the filter's column is neither
\* null nor absent, whatever the filter's value.
C11_UnknownOperatorKeepsPresent ==
    UnknownOperatorCall =>
        retVal = SelectSeq(argBefore,
                           LAMBDA d : ~IsNullish(Get(d, par.filters[1].column)))

\* C11 witness: a filter with an unknown operator kept a string that its
\* value does not equal and dropped a record with null or no value.
C11_Witness ==
    /\ UnknownOperatorCall
    /\ Len(argBefore) = 2
    /\ retVal = <<MkObj([f \in {"x"} |-> Str(<<97>>)])>>
    /\ par.filters[1].value = Str(<<50>>)

(***************************************************************************)
(* identifyNumericColumns on its own                                       *)
(***************************************************************************)

MaxClassifyRecords == 2

ClassifyObjects ==
    {MkObj([f \in {"x", "y"} |-> IF f = "x" THEN vx ELSE vy]) :
        vx \in {Num(1), Str(<<97>>), Undef}, vy \in {Num(2), NaN}}

DeclaredTypes == {"number", "enum", "string"}

TypeLists == UNION {[1..m -> DeclaredTypes] : m \in {0, 1, 2, 3}}

FeatureLists == {<<"x", "y">>, <<"y", "x">>, <<"y">>}

InitClassify ==
    \E objs \in SeqsUpTo(ClassifyObjects, MaxClassifyRecords),
       fl \in FeatureLists, tl \in TypeLists :
        StartWith(objs, [DefaultPar EXCEPT !.features = fl, !.types = tl])

NextClassify == CallIdentifyNumericColumns

SpecClassify == InitClassify /\ [][NextClassify]_vars

\* The rule for the feature at position i: declared "number", or declared
\* "enum" with a number as the value of every record.
IsNumericFeature(data, features, types, i) ==
    \/ (i <= Len(types) /\ types[i] = "number")
    \/ /\ i <= Len(types) /\ types[i] = "enum"
       /\ \A r \in 1..Len(data) :
             /\ features[i] \in DOMAIN data[r]
             /\ data[r][features[i]].k \in {"num", "nan", "inf"}

\* C8: identifyNumericColumns returns, in the order of the feature list,
\* exactly the features declared "number" and the features declared "enum"
\* whose value is a number in every record.
C8_Classifier ==
    (call = "identifyNumericColumns") =>
        /\ IsSubsequence(retVal, par.features)
        /\ \A i \in 1..Len(par.features) :
              (par.features[i] \in Range(retVal))
                  <=> IsNumericFeature(argBefore, par.features, par.types, i)

\* C8 witness: of two features declared "enum", one is returned and the
\* other, which has a value that is no number, is not.
C8_Witness ==
    /\ call = "identifyNumericColumns"
    /\ par.types = <<"enum", "enum">>
    /\ Len(par.features) = 2
    /\ Len(argBefore) = 2
    /\ Len(retVal) = 1

\* C9 (as stated): with a feature list and a type list of different
\* lengths the classifier raises TypeConfigurationError.
C9_LengthMismatchRaises ==
    (call = "identifyNumericColumns" /\ Len(par.features) # Len(par.types)) =>
        thrown = "TypeConfigurationError"

(***************************************************************************)
(* aggregateData on its own                                                *)
(***************************************************************************)

MaxAggregateRecords == 3

\* Group keys 2, 10, "15", "2" and null; values 1 and none.
AggregateObjects ==
    {MkObj([f \in {"x", "y"} |-> IF f = "x" THEN g ELSE v]) :
        g \in {Num(2), Num(10), Str(<<49, 53>>), Str(<<50>>), Null},
        v \in {Num(1), Undef}}

InitAggregate ==
    \E objs \in SeqsUpTo(AggregateObjects, MaxAggregateRecords) :
        StartWith(objs, DefaultPar)

NextAggregate == CallAggregateData

SpecAggregate == InitAggregate /\ [][NextAggregate]_vars

\* The group keys of the records aggregateData does not skip.
ValidKeys(data, groupFeature, numericFeature) ==
    {Get(data[i], groupFeature) :
        i \in {j \in 1..Len(data) :
                  /\ ~IsNullish(Get(data[j], groupFeature))
                  /\ IsFinite(Get(data[j], numericFeature))}}

OneEntryPerKey(out, data, groupFeature, numericFeature) ==
    /\ \A i, j \in 1..Len(out) : out[i].group = out[j].group => i = j
    /\ {out[i].group : i \in 1..Len(out)} = ValidKeys(data, groupFeature, numericFeature)

\* a is not after b: numeric order for two numbers, the order of the string
\* forms otherwise.
KeyNotAfter(a, b) ==
    IF a.k = "num" /\ b.k = "num" THEN ~NumLess(b, a)
    ELSE LocaleCompare(ToStringJS(a), ToStringJS(b)) <= 0

SortedByGroup(out) ==
    \A i, j \in 1..Len(out) : i < j => KeyNotAfter(out[i].group, out[j].group)

\* C4 (as stated): aggregateData returns one entry per distinct group key
\* of a valid record, sorted ascending by group key, for every input.
C4_OnePerKeySorted ==
    (call = "aggregateData" /\ calls = 1) =>
        /\ OneEntryPerKey(retVal, argBefore, par.groupFeature, par.numericFeature)
        /\ SortedByGroup(retVal)

\* C4 (amended): one entry per distinct group key of a valid record, for
\* every input; sorted ascending by group key when the keys are all numbers
\* or all strings.
C4_OnePerKeySortedSameType ==
    (call = "aggregateData" /\ calls = 1) =>
        /\ OneEntryPerKey(retVal, argBefore, par.groupFeature, par.numericFeature)
        /\ (\/ \A i \in 1..Len(retVal) : retVal[i].group.k = "num"
            \/ \A i \in 1..Len(retVal) : retVal[i].group.k = "str")
           => SortedByGroup(retVal)

\* C4 witness: three records with the keys 10, 2 and 10 gave two entries,
\* 2 before 10.
C4_Witness ==
    /\ call = "aggregateData"
    /\ calls = 1
    /\ Len(argBefore) = 3
    /\ Len(retVal) = 2
    /\ retVal[1].group = Num(2)
    /\ retVal[2].group = Num(10)
    /\ Get(argBefore[1], "x") = Num(10)

(***************************************************************************)
(* aggregateData: the records it counts and the statistic of each group    *)
(***************************************************************************)

MaxStatisticRecords == 3

\* What a record may hold as numeric value: two numbers, NaN, the two
\* infinities, null, nothing, and a string.
StatisticValues == {Num(1), Num(4), NaN, Inf(1), Inf(-1), Null, Undef, Str(<<49>>)}

\* Records of the group "a" with each of these values, records of the group
\* "b" with the two numbers, and one record each with null and with nothing
\* as group.
StatisticObjects ==
    {MkObj([f \in {"x", "y"} |-> IF f = "x" THEN Str(<<97>>) ELSE v]) :
        v \in StatisticValues}
    \cup {MkObj([f \in {"x", "y"} |-> IF f = "x" THEN Str(<<98>>) ELSE v]) :
            v \in {Num(1), Num(4)}}
    \cup {MkObj([f \in {"x", "y"} |-> IF f = "x" THEN g ELSE Num(1)]) : g \in {Null, Undef}}

KnownMethods == {"sum", "average", "median", "min", "max"}

\* The methods tried: the five of the dropdown, the empty string of the
\* dropdown's placeholder, and a name that is no method.
Methods == KnownMethods \cup {"", "mean"}

InitStatistic ==
    \E objs \in SeqsUpTo(StatisticObjects, MaxStatisticRecords), method \in Methods :
        StartWith(objs, [DefaultPar EXCEPT !.method = method])

NextStatistic == CallAggregateData

SpecStatistic == InitStatistic /\ [][NextStatistic]_vars

\* The values of the records of group key that are numbers other than NaN.
GroupValues(data, groupFeature, numericFeature, key) ==
    Column(SelectSeq(data, LAMBDA d : /\ Get(d, groupFeature) = key
                                      /\ Get(d, numericFeature).k \in {"num", "inf"}),
           numericFeature)

\* The values of the records of group key that are finite numbers.
FiniteGroupValues(data, groupFeature, numericFeature, key) ==
    Column(SelectSeq(data, LAMBDA d : /\ Get(d, groupFeature) = key
                                      /\ IsFinite(Get(d, numericFeature))),
           numericFeature)

RECURSIVE Total(_)
Total(vals) == IF vals = <<>> THEN Num(0) ELSE NumAdd(vals[1], Total(Tail(vals)))

Smallest(vals) == CHOOSE v \in Range(vals) : \A w \in Range(vals) : ~NumLess(w, v)

Largest(vals) == CHOOSE v \in Range(vals) : \A w \in Range(vals) : ~NumLess(v, w)

\* The middle value of the ascending order for an odd number of values, the
\* mean of the two middle values for an even number.
MiddleValue(vals) ==
    IF Len(vals) % 2 = 1 THEN QuantileAt(vals, (Len(vals) - 1) \div 2)
    ELSE NumDiv(NumAdd(QuantileAt(vals, Len(vals) \div 2 - 1),
                       QuantileAt(vals, Len(vals) \div 2)), Num(2))

\* The statistic of a group's values, for the five methods.
StatisticOf(vals, method) ==
    CASE method = "sum"     -> Total(vals)
      [] method = "average" -> NumDiv(Total(vals), Num(Len(vals)))
      [] method = "median"  -> MiddleValue(vals)
      [] method = "min"     -> Smallest(vals)
      [] method = "max"     -> Largest(vals)

\* C14 (as stated): only the records with a group and a finite number as
\* value count: the groups emitted are the groups of these records, and
\* each group's value is the statistic of the finite values of the group.
C14_OnlyFiniteCounted ==
    (call = "aggregateData" /\ calls = 1) =>
        /\ {retVal[i].group : i \in 1..Len(retVal)}
              = ValidKeys(argBefore, par.groupFeature, par.numericFeature)
        /\ (par.method \in KnownMethods) =>
              \A i \in 1..Len(retVal) :
                  LET vals == FiniteGroupValues(argBefore, par.groupFeature,
                                                par.numericFeature, retVal[i].group)
                  IN  vals # <<>> /\ retVal[i].value = StatisticOf(vals, par.method)

\* C15: for each of the five methods, the value of every emitted group is
\* the statistic of the group's values that are numbers other than NaN:
\* sum, sum divided by count, smallest, largest, and as median the middle
\* value of the ascending order or the mean of the two middle values.
C15_GroupStatistic ==
    (call = "aggregateData" /\ calls = 1 /\ par.method \in KnownMethods) =>
        \A i \in 1..Len(retVal) :
            LET vals == GroupValues(argBefore, par.groupFeature,
                                    par.numericFeature, retVal[i].group)
            IN  vals # <<>> /\ retVal[i].value = StatisticOf(vals, par.method)

\* C15 witness: the median of the group 1, 4 (two values) came out as 5/2
\* beside a group of one value.
C15_Witness ==
    /\ call = "aggregateData"
    /\ calls = 1
    /\ par.method = "median"
    /\ Len(argBefore) = 3
    /\ retVal = <<[group |-> Str(<<97>>), value |-> Frac(5, 2)],
                  [group |-> Str(<<98>>), value |-> Num(4)]>>

\* C16: with a method that is none of sum, average, median, min, max (the
\* empty string included) aggregateData returns a result that method
\* "average" gives for the same dataset.
C16_UnknownMethodIsAverage ==
    (call = "aggregateData" /\ calls = 1 /\ par.method \notin KnownMethods) =>
        /\ retVal \in AggregateOutcomes(argBefore, par.groupFeature,
                                        par.numericFeature, "average")
        /\ \A i \in 1..Len(retVal) :
              retVal[i].value
                  = StatisticOf(GroupValues(argBefore, par.groupFeature,
                                            par.numericFeature, retVal[i].group),
                                "average")

\* C16 witness: the empty method gave the average 2 of the group 1, 1, 4,
\* which is neither its sum nor its median.
C16_Witness ==
    /\ call = "aggregateData"
    /\ calls = 1
    /\ par.method = ""
    /\ Len(argBefore) = 3
    /\ retVal = <<[group |-> Str(<<97>>), value |-> Num(2)]>>

(***************************************************************************)
(* The five stages, called one after the other in any order                *)
(***************************************************************************)

MaxStageRecords == 2

StageObjects ==
    {MkObj([f \in {"x", "y"} |-> IF f = "x" THEN vx ELSE Num(1)]) :
        vx \in {Num(1), Num(2), Undef}}

InitStages ==
    \E objs \in SeqsUpTo(StageObjects, MaxStageRecords),
       key \in {"x", ""}, order \in {"asc", "desc"},
       fs \in {<<>>, <<[column |-> "x", operator |-> "<", value |-> Str(<<50>>)]>>} :
        StartWith(objs, [DefaultPar EXCEPT !.key = key, !.order = order, !.filters = fs])

NextStages ==
    \/ CallApplyFiltering
    \/ CallRemoveOutliers
    \/ CallApplyNormalization
    \/ CallAggregateData
    \/ CallSortData

SpecStages == InitStages /\ [][NextStages]_vars

\* C7 (as stated): every stage leaves the array it was given, and its
\* records, as they were, and returns another array than the one given.
C7_FreshAndUnchanged ==
    (call # "none") => (Deref(heap, arg) = argBefore /\ ret # arg)

\* C7 (amended): every stage leaves the array it was given, and its records,
\* as they were; it returns another array than the one given, except
\* sortData, which returns the very array it was given when the key is
\* empty or the array has no record.
C7_UnchangedFreshButSortNoop ==
    (call # "none") =>
        /\ Deref(heap, arg) = argBefore
        /\ (ret = arg) <=> (call = "sortData" /\ (par.key = "" \/ Len(argBefore) = 0))

\* C7 witness: sortData returned the records in another order than given.
C7_Witness ==
    /\ call = "sortData"
    /\ Len(retVal) = 2
    /\ retVal # argBefore
    /\ Deref(heap, arg) = argBefore

(***************************************************************************)
(* Dataviz.Setup, the listeners it registers and updateChart               *)
(***************************************************************************)

ChartTypes ==
    {"Line Chart", "Bar Chart", "Scatter Plot", "Heatmap", "Histogram", "Table"}

\* The controls the chart-type listener leaves shown for chart type t; all of
\* them are hidden until a chart type is chosen.
AxesVisible(t) == t \in {"Histogram", "Line Chart", "Bar Chart", "Scatter Plot"}

DataProcessingVisible(t) == t \in {"Line Chart", "Bar Chart"}

TableSortingVisible(t) == t = "Table"

FiltersVisible(t) == t \in ChartTypes

\* The characters of a feature name.
NameCodes(name) ==
    CASE name = "x" -> <<120>>
      [] name = "y" -> <<121>>
      [] name = "g" -> <<103>>
      [] OTHER      -> <<>>

\* sortFunction without its numeric branch: always the order of the strings.
sortFunction_Lexicographic(a, b) == LocaleCompare(ToStringJS(a), ToStringJS(b))

\* sortFunction(a, b), as a sign.
sortFunction(a, b) ==
    IF ~IsNaNJS(a) /\ ~IsNaNJS(b) THEN CmpSign(NumSub(ToNumber(a), ToNumber(b)))
    ELSE LocaleCompare(ToStringJS(a), ToStringJS(b))

\* options.sort(sortFunction) in createLabeledDropdown: the orders the list
\* of names may be left in. The list is sorted in place, so the caller's
\* array is in that order afterwards.
SortedOptions(options) ==
    LET n == Len(options)
        c == [i \in 1..n |-> [j \in 1..n |->
                 sortFunction(Str(NameCodes(options[i])), Str(NameCodes(options[j])))]]
    IN  {Permute(options, f) : f \in SortOrders(n, c)}

\* parseFloat of the value of a number input, which is empty or the text of
\* a number.
ParseFloat(s) == IF s = <<>> THEN NaN ELSE StringToNumber(s)

\* parseFloat(...) || 1.5
ThresholdOf(text) ==
    LET p == ParseFloat(text)
    IN  IF p.k = "nan" \/ (p.k = "num" /\ p.n = 0) THEN DefaultThreshold ELSE p

\* The chart method the switch of updateChart calls.
ChartMethod(chartType) ==
    CASE chartType = "Line Chart"   -> "_Linechart"
      [] chartType = "Bar Chart"    -> "_Barchart"
      [] chartType = "Scatter Plot" -> "_Scatterplot"
      [] chartType = "Heatmap"      -> "_Heatmap"
      [] chartType = "Histogram"    -> "_Histogram"
      [] chartType = "Table"        -> "_Table"
      [] OTHER                      -> "none"

\* datasetToUse = stage(datasetToUse): the heap and array after the stage,
\* and the stage added to the record of the stages run, with the records it
\* was given and the records it returned.
Staged(st, name, out) ==
    [h |-> out.h, r |-> out.r,
     stages |-> Append(st.stages, [name |-> name, input |-> Deref(st.h, st.r),
                                   output |-> Deref(out.h, out.r)])]

\* datasetToUse.map(d => ({[xFeature]: d.group, [yFeature]: d.value}))
RenameAggregated(out, xFeature, yFeature) ==
    LET agg  == Deref(out.h, out.r)
        objs == [i \in 1..Len(agg) |->
                    Put(Put([f \in {} |-> Undef], xFeature, agg[i].group),
                        yFeature, agg[i].value)]
    IN  AllocArray(AllocObjs(out.h, objs), NewIds(out.h, Len(objs)))

\* The five stages of updateChart, each from the heap and array s the stage
\* before it left to the set of those it may leave.
FilterStage(s, filters) ==
    IF Len(filters) > 0
    THEN {Staged(s, "applyFiltering", o) : o \in {applyFiltering(s.h, s.r, filters)}}
    ELSE {s}

OutlierStage(s, ctl, numericFeatures, threshold) ==
    IF ctl.removeOutliers
    THEN {Staged(s, "removeOutliers", o)
          : o \in removeOutliers(s.h, s.r, numericFeatures, threshold)}
    ELSE {s}

NormalizeStage(s, ctl, numericFeatures) ==
    IF ctl.normalize
    THEN {Staged(s, "applyNormalization", o)
          : o \in {applyNormalization(s.h, s.r, numericFeatures)}}
    ELSE {s}

\* AggregateStage without the test of the chart type.
AggregateStage_AnyChart(s, ctl) ==
    IF ctl.applyAggregation
    THEN {Staged(s, "aggregateData", o)
          : o \in {RenameAggregated(g, ctl.xFeature, ctl.yFeature)
                   : g \in aggregateData(s.h, s.r, ctl.xFeature, ctl.yFeature,
                                         ctl.aggregationMethod)}}
    ELSE {s}

AggregateStage(s, ctl) ==
    IF ctl.applyAggregation /\ ctl.chartType \in {"Bar Chart", "Line Chart"}
    THEN {Staged(s, "aggregateData", o)
          : o \in {RenameAggregated(g, ctl.xFeature, ctl.yFeature)
                   : g \in aggregateData(s.h, s.r, ctl.xFeature, ctl.yFeature,
                                         ctl.aggregationMethod)}}
    ELSE {s}

SortStage(s, ctl) ==
    IF ctl.chartType = "Table" /\ ctl.sortColumn # "" /\ ctl.sortOrder # ""
    THEN {Staged(s, "sortData", o)
          : o \in sortData(s.h, s.r, ctl.sortColumn, ctl.sortOrder)}
    ELSE {s}

\* The record of a run of updateChart that cloned Dataviz.currentData into
\* source, read the values ctl of the controls, the filters and the numeric
\* columns of clo and the options cfg, and ended with the heap and array s.
RunOf(s, source, clo, ctl, area, threshold, cfg) ==
    [h    |-> s.h,
     last |-> [kind |-> "updateChart", stages |-> s.stages, source |-> source,
               filters |-> clo.filters, numericFeatures |-> clo.numericFeatures,
               threshold |-> threshold, read |-> ctl, config |-> cfg,
               chart |-> ChartMethod(ctl.chartType), data |-> Deref(s.h, s.r),
               area |-> IF ctl.chartType \in ChartTypes THEN area ELSE "none"]]

\* What one run of updateChart may do, each [h, last]: the heap it leaves and
\* the record of the run. cur is Dataviz.currentData, clo the variables of
\* the Setup call the function belongs to, ctl the values of the controls,
\* area the chartDiv of that Setup call and cfg the options of CONFIG.
updateChart(h, cur, clo, ctl, area, cfg) ==
    UNION {UNION {UNION {UNION {UNION {UNION {UNION {
        {RunOf(s5, Deref(s0.h, s0.r), clo, ctl, area, threshold, cfg)}
        : s5 \in SortStage(s4, ctl)}
        : s4 \in AggregateStage(s3, ctl)}
        : s3 \in NormalizeStage(s2, ctl, clo.numericFeatures)}
        : s2 \in OutlierStage(s1, ctl, clo.numericFeatures, threshold)}
        : s1 \in FilterStage(s0, clo.filters)}
        : s0 \in {[h |-> c.h, r |-> c.r, stages |-> <<>>] : c \in {JSONClone(h, cur)}}}
        : threshold \in {ThresholdOf(ctl.outlierThreshold)}}

\* The heap once a handler has returned: the arrays and objects it created
\* are garbage, those that were there before stay as the handler left them.
Collected(h, before) ==
    [arr |-> SubSeq(h.arr, 1, Len(before.arr)), obj |-> SubSeq(h.obj, 1, Len(before.obj))]

\* A listener that calls updateChart with the controls and the options as
\* they were before the event.
ListenerUpdateChart_Stale(clo, ctl, cfg) ==
    \E o \in updateChart(heap, currentData, clo, controls, "chartDiv", config) :
        /\ heap' = Collected(o.h, heap)
        /\ last' = o.last
        /\ thrown' = "none"

\* A listener calls the updateChart of the Setup call that registered it,
\* with the controls and the options as the event left them.
ListenerUpdateChart(clo, ctl, cfg) ==
    \E o \in updateChart(heap, currentData, clo, ctl, "chartDiv", cfg) :
        /\ heap' = Collected(o.h, heap)
        /\ last' = o.last
        /\ thrown' = "none"

\* One more event of the user, as long as the user makes events.
UserEvent ==
    /\ budget # 0
    /\ budget' = IF budget < 0 THEN budget ELSE budget - 1

\* The test of Setup left out: the controls are created by every call.
CreatesControls_Always(created) == TRUE

\* if (!Dataviz.controlsCreated)
CreatesControls(created) == ~created

MaxSetups == 1

MaxFilterRows == 1

MaxFilterIds == 1

\* Dataviz.Setup(dataviz, data, name, features, types, enumerations), with
\* the records of data given by value: the caller's array is a new array of
\* the heap.
Setup(objs, features, types) ==
    LET base            == AllocArray(AllocObjs(heap, objs), NewIds(heap, Len(objs)))
        numericFeatures == identifyNumericColumns(objs, features, types)
    IN  /\ setups' = setups + 1
        /\ setupData' = objs
        /\ currentData' = base.r
        /\ currentFeatures' = features
        /\ currentTypes' = types
        /\ thrown' = "none"
        /\ UNCHANGED <<callVars, config, budget>>
        /\ IF Len(numericFeatures) = 0
           THEN /\ heap' = base.h
                /\ last' = [NoRender EXCEPT !.kind = "alert"]
                /\ UNCHANGED <<controlsCreated, chartDiv, closure, controls, filterUI, dom>>
           ELSE \E sortedNumeric \in SortedOptions(numericFeatures),
                   sortedFeatures \in SortedOptions(features),
                   creating \in {CreatesControls(controlsCreated)} :
                \E own \in {IF creating
                             THEN [numericFeatures |-> sortedNumeric,
                                   features |-> sortedFeatures,
                                   filters |-> <<>>, data |-> base.r]
                             ELSE [numericFeatures |-> numericFeatures,
                                   features |-> features,
                                   filters |-> <<>>, data |-> base.r]},
                   ctl \in {IF creating THEN DefaultControls ELSE controls},
                   area \in {IF chartDiv = "null" THEN "chartDiv" ELSE "undefined"} :
                    /\ closure' = IF creating THEN own ELSE closure
                    /\ controls' = ctl
                    /\ filterUI' = IF creating THEN NoFilterUI ELSE filterUI
                    /\ controlsCreated' = TRUE
                    /\ chartDiv' = "div"
                    /\ dom' = [controlsSurfaces |->
                                   dom.controlsSurfaces + (IF creating THEN 1 ELSE 0),
                               listenerSets |->
                                   dom.listenerSets + (IF creating THEN 1 ELSE 0),
                               chartContainers |->
                                   dom.chartContainers + (IF chartDiv = "null" THEN 1 ELSE 0)]
                    /\ \E o \in updateChart(base.h, base.r, own, ctl, area, config) :
                           /\ heap' = Collected(o.h, base.h)
                           /\ last' = o.last

\* What a listener of a control leaves alone.
ListenerFrame ==
    /\ UserEvent
    /\ UNCHANGED <<callVars, currentData, currentFeatures, currentTypes, controlsCreated,
                   chartDiv, closure, filterUI, setups, setupData, config, dom>>

\* The 'change' listener of chartTypeDropdown.
ChangeChartType(t) ==
    /\ controlsCreated
    /\ t \in ChartTypes /\ t # controls.chartType
    /\ controls' = [controls EXCEPT !.chartType = t]
    /\ ListenerUpdateChart(closure, controls', config)
    /\ ListenerFrame

\* The 'change' listeners of the x-axis and y-axis dropdowns.
ChangeXAxis(f) ==
    /\ controlsCreated /\ AxesVisible(controls.chartType)
    /\ f \in Range(closure.numericFeatures) /\ f # controls.xFeature
    /\ controls' = [controls EXCEPT !.xFeature = f]
    /\ ListenerUpdateChart(closure, controls', config)
    /\ ListenerFrame

ChangeYAxis(f) ==
    /\ controlsCreated /\ AxesVisible(controls.chartType)
    /\ f \in Range(closure.numericFeatures) /\ f # controls.yFeature
    /\ controls' = [controls EXCEPT !.yFeature = f]
    /\ ListenerUpdateChart(closure, controls', config)
    /\ ListenerFrame

\* The 'change' listeners of the three checkboxes of the data processing
\* section.
ToggleNormalize ==
    /\ controlsCreated /\ DataProcessingVisible(controls.chartType)
    /\ controls' = [controls EXCEPT !.normalize = ~@]
    /\ ListenerUpdateChart(closure, controls', config)
    /\ ListenerFrame

ToggleRemoveOutliers ==
    /\ controlsCreated /\ DataProcessingVisible(controls.chartType)
    /\ controls' = [controls EXCEPT !.removeOutliers = ~@]
    /\ ListenerUpdateChart(closure, controls', config)
    /\ ListenerFrame

ToggleApplyAggregation ==
    /\ controlsCreated /\ DataProcessingVisible(controls.chartType)
    /\ controls' = [controls EXCEPT !.applyAggregation = ~@]
    /\ ListenerUpdateChart(closure, controls', config)
    /\ ListenerFrame

\* The 'change' listeners of the sort dropdowns of the table.
ChangeSortColumn(c) ==
    /\ controlsCreated /\ TableSortingVisible(controls.chartType)
    /\ c \in Range(closure.features) /\ c # controls.sortColumn
    /\ controls' = [controls EXCEPT !.sortColumn = c]
    /\ ListenerUpdateChart(closure, controls', config)
    /\ ListenerFrame

ChangeSortOrder(o) ==
    /\ controlsCreated /\ TableSortingVisible(controls.chartType)
    /\ o \in {"asc", "desc"} /\ o # controls.sortOrder
    /\ controls' = [controls EXCEPT !.sortOrder = o]
    /\ ListenerUpdateChart(closure, controls', config)
    /\ ListenerFrame

\* The 'input' listener of outlierThresholdInput, the field holding text.
InputOutlierThreshold(text) ==
    /\ controlsCreated /\ DataProcessingVisible(controls.chartType)
    /\ text # controls.outlierThreshold
    /\ controls' = [controls EXCEPT !.outlierThreshold = text]
    /\ ListenerUpdateChart(closure, controls', config)
    /\ ListenerFrame

\* The 'change' listener of aggregationDropdown.
ChangeAggregationMethod(m) ==
    /\ controlsCreated /\ DataProcessingVisible(controls.chartType)
    /\ m \in {"sum", "average", "median", "max", "min"} /\ m # controls.aggregationMethod
    /\ controls' = [controls EXCEPT !.aggregationMethod = m]
    /\ ListenerUpdateChart(closure, controls', config)
    /\ ListenerFrame

\* The 'change' listeners of the three dropdowns of the heatmap.
ChangeRowFeature(f) ==
    /\ controlsCreated /\ controls.chartType = "Heatmap"
    /\ f \in Range(closure.features) /\ f # controls.rowFeature
    /\ controls' = [controls EXCEPT !.rowFeature = f]
    /\ ListenerUpdateChart(closure, controls', config)
    /\ ListenerFrame

ChangeColFeature(f) ==
    /\ controlsCreated /\ controls.chartType = "Heatmap"
    /\ f \in Range(closure.features) /\ f # controls.colFeature
    /\ controls' = [controls EXCEPT !.colFeature = f]
    /\ ListenerUpdateChart(closure, controls', config)
    /\ ListenerFrame

ChangeValFeature(f) ==
    /\ controlsCreated /\ controls.chartType = "Heatmap"
    /\ f \in Range(closure.numericFeatures) /\ f # controls.valueFeature
    /\ controls' = [controls EXCEPT !.valueFeature = f]
    /\ ListenerUpdateChart(closure, controls', config)
    /\ ListenerFrame

\* What a listener that sets an option of CONFIG leaves alone.
ConfigListenerFrame ==
    /\ UserEvent
    /\ UNCHANGED <<callVars, currentData, currentFeatures, currentTypes, controlsCreated,
                   chartDiv, closure, controls, filterUI, setups, setupData, dom>>

\* The 'change' listener of fontSizeInput, shown once a chart type has been
\* chosen, the field holding text.
ChangeFontSize(text) ==
    /\ controlsCreated /\ controls.chartType # ""
    /\ ParseFloat(text) # config.fontSize
    /\ config' = [config EXCEPT !.fontSize = ParseFloat(text)]
    /\ ListenerUpdateChart(closure, controls, config')
    /\ ConfigListenerFrame

\* The 'change' listeners of barColorInput and histColorInput, which both
\* set CONFIG.general.color.
ChangeBarColor(c) ==
    /\ controlsCreated /\ controls.chartType = "Bar Chart"
    /\ c # config.color
    /\ config' = [config EXCEPT !.color = c]
    /\ ListenerUpdateChart(closure, controls, config')
    /\ ConfigListenerFrame

ChangeHistColor(c) ==
    /\ controlsCreated /\ controls.chartType = "Histogram"
    /\ c # config.color
    /\ config' = [config EXCEPT !.color = c]
    /\ ListenerUpdateChart(closure, controls, config')
    /\ ConfigListenerFrame

\* The 'change' listener of lsColorInput.
ChangeLsColor(c) ==
    /\ controlsCreated /\ controls.chartType \in {"Line Chart", "Scatter Plot"}
    /\ c # config.seriesColor
    /\ config' = [config EXCEPT !.seriesColor = c]
    /\ ListenerUpdateChart(closure, controls, config')
    /\ ConfigListenerFrame

\* The 'change' listener of colorMapDropdown.
ChangeColorMap(m) ==
    /\ controlsCreated /\ controls.chartType = "Heatmap"
    /\ m \in {"viridis", "greyscale", "blues"} /\ m # config.colorMap
    /\ config' = [config EXCEPT !.colorMap = m]
    /\ ListenerUpdateChart(closure, controls, config')
    /\ ConfigListenerFrame

\* The 'change' listener of maxBinsInput, the field holding the digits of a
\* whole number: parseInt of them.
ChangeMaxBins(text) ==
    /\ controlsCreated /\ controls.chartType = "Histogram"
    /\ AllDigits(text) /\ ParseFloat(text) # config.maxBins
    /\ config' = [config EXCEPT !.maxBins = ParseFloat(text)]
    /\ ListenerUpdateChart(closure, controls, config')
    /\ ConfigListenerFrame

\* The 'change' listener of statsCheckbox: '' when checked, false when not.
ToggleStats ==
    /\ controlsCreated /\ controls.chartType = "Histogram"
    /\ config' = [config EXCEPT !.stats = IF @ = "false" THEN "" ELSE "false"]
    /\ ListenerUpdateChart(closure, controls, config')
    /\ ConfigListenerFrame

\* What a handler of the filter panel that draws no chart leaves alone.
FilterPanelFrame ==
    UNCHANGED <<heap, thrown, callVars, currentData, currentFeatures, currentTypes,
                controlsCreated, chartDiv, closure, controls, setups, setupData, last,
                config, dom, budget>>

\* addFilterButton.onclick: a new row with no feature chosen and no filter
\* id. A row also remembers, in applied, the filter its Apply button made
\* last.
AddFilterRow(maxRows) ==
    /\ controlsCreated /\ FiltersVisible(controls.chartType)
    /\ Len(filterUI.filterRows) < maxRows
    /\ filterUI' = [filterUI EXCEPT
                       !.filterRows = Append(@, [feature |-> "", filterId |-> 0,
                                                applied |-> <<>>])]
    /\ FilterPanelFrame

\* featureDropdown.onchange of row r.
SelectFilterFeature(r, col) ==
    /\ controlsCreated /\ FiltersVisible(controls.chartType)
    /\ r \in 1..Len(filterUI.filterRows)
    /\ col \in Range(closure.features) /\ col # filterUI.filterRows[r].feature
    /\ filterUI' = [filterUI EXCEPT !.filterRows[r].feature = col]
    /\ FilterPanelFrame

\* filtersMap.set(fid, fil) adding an entry even when the key is known.
MapSet_Append(m, fid, fil) == Append(m, [fid |-> fid, fil |-> fil])

\* filtersMap.set(fid, fil): a new key goes last, a known key keeps its place.
MapSet(m, fid, fil) ==
    IF \E i \in 1..Len(m) : m[i].fid = fid
    THEN [i \in 1..Len(m) |-> IF m[i].fid = fid THEN [fid |-> fid, fil |-> fil] ELSE m[i]]
    ELSE Append(m, [fid |-> fid, fil |-> fil])

\* filtersMap.delete(fid)
MapDelete(m, fid) == SelectSeq(m, LAMBDA e : e.fid # fid)

\* Array.from(filtersMap.values())
MapValues(m) == [i \in 1..Len(m) |-> m[i].fil]

\* applyBtn.onclick of row r, the operator dropdown and the value field (or
\* the value dropdown of a column that is not numeric) holding operator and
\* value.
ApplyFilter(r, operator, value, maxIds) ==
    /\ controlsCreated /\ FiltersVisible(controls.chartType)
    /\ r \in 1..Len(filterUI.filterRows)
    /\ LET row == filterUI.filterRows[r]
           col == row.feature
           fil == IF col \in Range(closure.numericFeatures)
                  THEN [column |-> col, operator |-> operator, value |-> value]
                  ELSE [column |-> col, operator |-> "==", value |-> value]
           new == row.filterId = 0
           fid == IF new THEN filterUI.filterIdCounter + 1 ELSE row.filterId
           map == MapSet(filterUI.filtersMap, fid, fil)
       IN  /\ col # ""
           /\ new => filterUI.filterIdCounter < maxIds
           /\ filterUI' = [filterRows |-> [filterUI.filterRows EXCEPT
                                              ![r].filterId = fid,
                                              ![r].applied = <<fil>>],
                           filtersMap |-> map,
                           filterIdCounter |-> IF new THEN fid ELSE filterUI.filterIdCounter]
           /\ closure' = [closure EXCEPT !.filters = MapValues(map)]
           /\ ListenerUpdateChart(closure', controls, config)
    /\ UserEvent
    /\ UNCHANGED <<callVars, currentData, currentFeatures, currentTypes, controlsCreated,
                   chartDiv, controls, setups, setupData, config, dom>>

\* removeBtn.onclick of row r; the buttons of a row are shown once a feature
\* has been chosen in it.
RemoveFilterRow(r) ==
    /\ controlsCreated /\ FiltersVisible(controls.chartType)
    /\ r \in 1..Len(filterUI.filterRows)
    /\ LET row  == filterUI.filterRows[r]
           map  == MapDelete(filterUI.filtersMap, row.filterId)
           rows == SelectSeqIdx(filterUI.filterRows, LAMBDA i : i # r)
       IN  /\ row.feature # ""
           /\ filterUI' = [filterUI EXCEPT !.filterRows = rows, !.filtersMap = map]
           /\ IF row.filterId # 0
              THEN /\ closure' = [closure EXCEPT !.filters = MapValues(map)]
                   /\ ListenerUpdateChart(closure', controls, config)
              ELSE UNCHANGED <<closure, heap, thrown, last>>
    /\ UserEvent
    /\ UNCHANGED <<callVars, currentData, currentFeatures, currentTypes, controlsCreated,
                   chartDiv, controls, setups, setupData, config, dom>>

(***************************************************************************)
(* The page: Setup calls by the host and the user's actions on the         *)
(* controls                                                                *)
(***************************************************************************)

Point(x, y) == MkObj([f \in {"x", "y"} |-> IF f = "x" THEN x ELSE y])

\* A dataset of two numeric columns: x has an outlier (0) and a repeated
\* value, and is not in order.
SetupDatasets ==
    {<<Point(Num(5), Num(1)), Point(Num(0), Num(2)), Point(Num(5), Num(4)),
       Point(Num(5), Num(2))>>}

SetupFeatures == <<"y", "x">>

SetupTypes == {<<"number", "number">>, <<"string", "string">>}

\* What the user has put in the operator dropdown and the value field of a
\* filter row when pressing Apply.
FilterEntries == {[operator |-> ">", value |-> Str(<<49>>)]}

Init ==
    /\ heap = EmptyHeap
    /\ ret = 0
    /\ retVal = <<>>
    /\ arg = 0
    /\ argBefore = <<>>
    /\ call = "none"
    /\ calls = 0
    /\ thrown = "none"
    /\ par = DefaultPar
    /\ console = <<>>
    /\ budget = -1
    /\ StaticsInitial

Next ==
    \/ \E objs \in SetupDatasets, types \in SetupTypes :
          setups < MaxSetups /\ Setup(objs, SetupFeatures, types)
    \/ \E t \in ChartTypes : ChangeChartType(t)
    \/ ChangeXAxis("x")
    \/ ChangeYAxis("y")
    \/ ToggleNormalize
    \/ ToggleRemoveOutliers
    \/ ToggleApplyAggregation
    \/ ChangeSortColumn("x")
    \/ ChangeSortOrder("desc")
    \/ AddFilterRow(MaxFilterRows)
    \/ \E r \in 1..MaxFilterRows : SelectFilterFeature(r, "y")
    \/ \E r \in 1..MaxFilterRows, e \in FilterEntries :
          ApplyFilter(r, e.operator, e.value, MaxFilterIds)
    \/ \E r \in 1..MaxFilterRows : RemoveFilterRow(r)

Spec == Init /\ [][Next]_vars

(***************************************************************************)
(* Properties of the page                                                  *)
(***************************************************************************)

StageOrder ==
    <<"applyFiltering", "removeOutliers", "applyNormalization", "aggregateData", "sortData">>

\* The names of the stages the last run of updateChart applied, in order.
StagesRun == [i \in 1..Len(last.stages) |-> last.stages[i].name]

\* Each stage of the last run was given what the stage before it returned,
\* the first one the copy of Dataviz.currentData, and the chart method was
\* given what the last stage returned.
Chained ==
    LET st == last.stages
        n  == Len(st)
    IN  /\ n > 0 => st[1].input = last.source
        /\ \A i \in 1..(n - 1) : st[i + 1].input = st[i].output
        /\ last.data = (IF n > 0 THEN st[n].output ELSE last.source)

\* The switch of a stage taken on its own: the filter list, the three
\* checkboxes, the two sort dropdowns.
SwitchedOn(name) ==
    CASE name = "applyFiltering"     -> Len(last.filters) > 0
      [] name = "removeOutliers"     -> controls.removeOutliers
      [] name = "applyNormalization" -> controls.normalize
      [] name = "aggregateData"      -> controls.applyAggregation
      [] name = "sortData"           -> controls.sortColumn # "" /\ controls.sortOrder # ""

\* The switch of a stage together with the chart types the stage is applied
\* for: aggregation for the bar and the line chart, sorting for the table.
AppliedFor(name) ==
    /\ SwitchedOn(name)
    /\ name = "aggregateData" => controls.chartType \in {"Bar Chart", "Line Chart"}
    /\ name = "sortData" => controls.chartType = "Table"

\* C5 as stated: on every updateChart invocation the stages that are switched
\* on run in the order filter, outlier removal, normalization, aggregation,
\* sort, each on the output of the one before and the chart method on the
\* output of the last, and a stage runs exactly when its own switch is on,
\* whatever the chart type.
C5_IndependentForEveryChart ==
    (last.kind = "updateChart") =>
        /\ StagesRun = SelectSeq(StageOrder, SwitchedOn)
        /\ Chained
        /\ last.chart = ChartMethod(controls.chartType)

\* C5 amended: on every updateChart invocation the stages run in the order
\* filter, outlier removal, normalization, aggregation, sort, each on the
\* output of the one before and the chart method on the output of the last;
\* filtering, outlier removal and normalization run exactly when switched
\* on, aggregation exactly when switched on and the chart is a bar or line
\* chart, sorting exactly when a column and an order are chosen and the
\* chart is the table.
C5_FixedOrderGatedByChart ==
    (last.kind = "updateChart") =>
        /\ StagesRun = SelectSeq(StageOrder, AppliedFor)
        /\ Chained
        /\ last.chart = ChartMethod(controls.chartType)

\* A line chart drawn with a filter, outlier removal, normalization and
\* aggregation all on: the filter dropped a record, normalization changed
\* values, and the chart was given one record per group.
C5_Witness ==
    /\ last.kind = "updateChart"
    /\ last.chart = "_Linechart"
    /\ StagesRun = SubSeq(StageOrder, 1, 4)
    /\ Len(last.stages[1].output) < Len(last.stages[1].input)
    /\ last.stages[3].output # last.stages[3].input
    /\ Len(last.data) = 2
    /\ Chained

\* C6: after any Setup call, control change, filter application or removal,
\* whatever stages the redraw ran, Dataviz.currentData holds the records
\* passed to the last Setup call, with the same values in the same order.
C6_CurrentDataKept ==
    (setups > 0) => Deref(heap, currentData) = setupData

\* A redraw that removed an outlier and normalized the rest drew records
\* other than those of Dataviz.currentData, which are as Setup was given
\* them.
C6_Witness ==
    /\ last.kind = "updateChart"
    /\ \E i, j \in 1..Len(last.stages) :
           /\ last.stages[i].name = "removeOutliers"
           /\ last.stages[j].name = "applyNormalization"
           /\ Len(last.stages[i].output) < Len(last.stages[i].input)
           /\ last.stages[j].output # last.stages[j].input
    /\ last.data # setupData
    /\ Deref(heap, currentData) = setupData
    /\ last.source = setupData

(***************************************************************************)
(* What the chart methods hand to the renderer                             *)
(***************************************************************************)

\* data.map(datum => ({x: datum[xFeature], y: datum[yFeature]}))
XYPairs(data, xFeature, yFeature) ==
    [i \in 1..Len(data) |-> [x |-> Get(data[i], xFeature), y |-> Get(data[i], yFeature)]]

\* LinechartValues without line.sort: the pairs in the order of the records.
LinechartValues_Unsorted(data, xFeature, yFeature) == {XYPairs(data, xFeature, yFeature)}

\* _Linechart: the series it may hand to tfvis.render.linechart, the pairs
\* after line.sort((a, b) => a.x - b.x).
LinechartValues(data, xFeature, yFeature) ==
    UNION {LET n == Len(line)
               c == [i \in 1..n |-> [j \in 1..n |-> CmpSign(JSSub(line[i].x, line[j].x))]]
           IN  {Permute(line, f) : f \in SortOrders(n, c)}
           : line \in {XYPairs(data, xFeature, yFeature)}}

\* _Scatterplot: the series it hands to tfvis.render.scatterplot.
ScatterplotValues(data, xFeature, yFeature) == XYPairs(data, xFeature, yFeature)

\* Array.from(new Set(values)): the distinct values, each where it first
\* occurs.
Distinct(values) ==
    SelectSeqIdx(values, LAMBDA i : \A j \in 1..(i - 1) : values[j] # values[i])

\* labels.sort(sortFunction): an undefined label goes last without being
\* compared, the others are ordered by sortFunction.
SortedLabels(labels) ==
    UNION {LET n == Len(def)
               c == [i \in 1..n |-> [j \in 1..n |-> sortFunction(def[i], def[j])]]
           IN  {Permute(def, f) \o SelectSeq(labels, LAMBDA v : v.k = "undef")
                : f \in SortOrders(n, c)}
           : def \in {SelectSeq(labels, LAMBDA v : v.k # "undef")}}

\* labels.indexOf(v): the zero-based index of the first label strictly equal
\* to v, -1 when there is none.
IndexOf(labels, v) ==
    LET at == {i \in 1..Len(labels) : JSStrictEq(labels[i], v)}
    IN  IF at = {} THEN -1 ELSE (CHOOSE i \in at : \A j \in at : i <= j) - 1

\* Accumulate with = in the place of +=.
RECURSIVE Accumulate_Overwrite(_, _, _, _, _, _, _)
Accumulate_Overwrite(data, rowLabels, colLabels, rowFeature, colFeature, valueFeature, i) ==
    IF i = 0 THEN [r \in 1..Len(rowLabels) |-> [c \in 1..Len(colLabels) |-> Num(0)]]
    ELSE LET m        == Accumulate_Overwrite(data, rowLabels, colLabels, rowFeature,
                                              colFeature, valueFeature, i - 1)
             rowIndex == IndexOf(rowLabels, Get(data[i], rowFeature))
             colIndex == IndexOf(colLabels, Get(data[i], colFeature))
         IN  IF rowIndex >= 0 /\ colIndex >= 0
             THEN [m EXCEPT ![rowIndex + 1][colIndex + 1] = Get(data[i], valueFeature)]
             ELSE m

\* The matrix, filled with 0, after data.forEach has taken the first i
\* records: matrix[rowIndex][colIndex] += datum[valueFeature].
RECURSIVE Accumulate(_, _, _, _, _, _, _)
Accumulate(data, rowLabels, colLabels, rowFeature, colFeature, valueFeature, i) ==
    IF i = 0 THEN [r \in 1..Len(rowLabels) |-> [c \in 1..Len(colLabels) |-> Num(0)]]
    ELSE LET m        == Accumulate(data, rowLabels, colLabels, rowFeature,
                                    colFeature, valueFeature, i - 1)
             rowIndex == IndexOf(rowLabels, Get(data[i], rowFeature))
             colIndex == IndexOf(colLabels, Get(data[i], colFeature))
         IN  IF rowIndex >= 0 /\ colIndex >= 0
             THEN [m EXCEPT ![rowIndex + 1][colIndex + 1] =
                                JSAdd(@, Get(data[i], valueFeature))]
             ELSE m

\* What buildHeatmapData may return.
buildHeatmapData(data, rowFeature, colFeature, valueFeature) ==
    {[values    |-> Accumulate(data, rl, cl, rowFeature, colFeature, valueFeature,
                               Len(data)),
      rowLabels |-> rl,
      colLabels |-> cl]
     : rl \in SortedLabels(Distinct(Column(data, rowFeature))),
       cl \in SortedLabels(Distinct(Column(data, colFeature)))}

\* A chart method or buildHeatmapData was called on the dataset and handed
\* over values; the dataset is only read. These calls return no dataset to
\* call again with: each is made once, on the dataset first given.
Handed(name, values) ==
    /\ retVal' = values
    /\ arg' = ret
    /\ argBefore' = Deref(heap, ret)
    /\ call' = name
    /\ calls' = calls + 1
    /\ thrown' = "none"
    /\ UNCHANGED <<heap, ret, par, console, uiVars>>

\* handleError raising the error it was given instead of the generic one.
handleError_Rethrow(context, error) ==
    [logged |-> [context |-> context, error |-> error], raised |-> error]

\* handleError(context, error): what console.error writes and the error
\* raised.
handleError(context, error) ==
    [logged |-> [context |-> context, error |-> error],
     raised |-> "No_possible_visualization"]

\* What a call of a function of tfvis.render may do: draw and return, or
\* raise an error.
RenderOutcomes == {"drawn", "RenderError"}

\* _Barchart: the bars it hands to tfvis.render.barchart.
BarchartValues(data, xFeature, yFeature) ==
    [i \in 1..Len(data) |->
        [index |-> Get(data[i], xFeature), value |-> Get(data[i], yFeature)]]

\* _Heatmap: what it may hand to tfvis.render.heatmap.
HeatmapValues(data, rowFeature, colFeature, valueFeature) ==
    {[values |-> b.values, xTickLabels |-> b.rowLabels, yTickLabels |-> b.colLabels]
     : b \in buildHeatmapData(data, rowFeature, colFeature, valueFeature)}

\* _Histogram: the values of xFeature that are numbers.
HistogramValues(data, xFeature) ==
    SelectSeq(Column(data, xFeature), LAMBDA v : TypeOf(v) = "number")

\* _Table: the headers and the rows, 'N/A' for a null or missing value.
TableValues(data, features) ==
    [headers |-> features,
     values  |-> [i \in 1..Len(data) |->
                    [j \in 1..Len(features) |->
                        IF IsNullish(Get(data[i], features[j]))
                        THEN Str(<<78, 47, 65>>)
                        ELSE Get(data[i], features[j])]]]

\* The body of a chart method that has prepared values: the renderer is
\* called with them; the error it may raise is caught and handleError is
\* called with the name of the method.
Rendered(name, values, outcome) ==
    /\ retVal' = values
    /\ arg' = ret
    /\ argBefore' = Deref(heap, ret)
    /\ call' = name
    /\ calls' = calls + 1
    /\ IF outcome = "drawn"
       THEN /\ thrown' = "none"
            /\ console' = console
       ELSE \E e \in {handleError(name, outcome)} :
               /\ thrown' = e.raised
               /\ console' = Append(console, e.logged)
    /\ UNCHANGED <<heap, ret, par, uiVars>>

CallLinechart ==
    /\ calls = 0
    /\ \E data \in {Deref(heap, ret)} :
          \E line \in LinechartValues(data, par.xFeature, par.yFeature) :
              Rendered("_Linechart", line, par.render)

CallBarchart ==
    /\ calls = 0
    /\ \E data \in {Deref(heap, ret)} :
          Rendered("_Barchart", BarchartValues(data, par.xFeature, par.yFeature),
                   par.render)

CallScatterplot ==
    /\ calls = 0
    /\ \E data \in {Deref(heap, ret)} :
          Rendered("_Scatterplot", ScatterplotValues(data, par.xFeature, par.yFeature),
                   par.render)

CallHeatmap ==
    /\ calls = 0
    /\ \E data \in {Deref(heap, ret)} :
          \E v \in HeatmapValues(data, par.rowFeature, par.colFeature,
                                  par.valueFeature) :
              Rendered("_Heatmap", v, par.render)

CallHistogram ==
    /\ calls = 0
    /\ \E data \in {Deref(heap, ret)} :
          Rendered("_Histogram", HistogramValues(data, par.xFeature), par.render)

CallTable ==
    /\ calls = 0
    /\ \E data \in {Deref(heap, ret)} :
          Rendered("_Table", TableValues(data, par.features), par.render)

CallBuildHeatmapData ==
    /\ calls = 0
    /\ \E data \in {Deref(heap, ret)} :
          \E out \in buildHeatmapData(data, par.rowFeature, par.colFeature,
                                      par.valueFeature) :
              Handed("buildHeatmapData", out)

(***************************************************************************)
(* The line-chart and scatter-plot projections on their own                *)
(***************************************************************************)

MaxProjectionRecords == 3

\* x: three numbers, each with the y values 10 and 20 that tell records of
\* equal x apart, and null and nothing, with y = 10.
ProjectionObjects ==
    {MkObj([f \in {"x", "y"} |-> IF f = "x" THEN vx ELSE vy]) :
        vx \in {Num(1), Num(2), Num(3)}, vy \in {Num(10), Num(20)}}
    \cup {MkObj([f \in {"x", "y"} |-> IF f = "x" THEN vx ELSE Num(10)]) :
            vx \in {Null, Undef}}

ProjectionPar(render) == [xFeature |-> "x", yFeature |-> "y", render |-> render]

InitProjection ==
    \E objs \in SeqsUpTo(ProjectionObjects, MaxProjectionRecords),
       render \in RenderOutcomes :
        StartWith(objs, ProjectionPar(render))

NextProjection ==
    \/ CallLinechart
    \/ CallScatterplot

SpecProjection == InitProjection /\ [][NextProjection]_vars

\* s holds the elements of t, each as often as t does.
IsPermutation(s, t) ==
    /\ Len(s) = Len(t)
    /\ \E f \in Perms(Len(t)) : s = Permute(t, f)

\* No pair comes after a pair with a larger x.
AscendingByX(pairs) ==
    \A i, j \in 1..Len(pairs) : i < j => ~JSLess(pairs[j].x, pairs[i].x)

C18_ScatterSortedByX ==
    (call = "_Scatterplot") =>
        /\ IsPermutation(retVal, XYPairs(argBefore, par.xFeature, par.yFeature))
        /\ AscendingByX(retVal)

(***************************************************************************)
(* buildHeatmapData on its own                                             *)
(***************************************************************************)

MaxHeatmapRecords == 3

\* Row labels: the numbers 9 and 10, the strings "10" and "1a", null and
\* nothing.
HeatmapRowLabels == {Num(9), Num(10), Str(<<49, 48>>), Str(<<49, 97>>), Null, Undef}

\* Column labels: the strings "1" and "2".
HeatmapColLabels == {Str(<<49>>), Str(<<50>>)}

\* The value 5 under every pair of labels, and under the labels 9 and "1"
\* also records with 3, with null and with nothing as value.
HeatmapObjects ==
    {MkObj([f \in {"r", "c", "v"} |->
               IF f = "r" THEN r ELSE IF f = "c" THEN c ELSE Num(5)]) :
        r \in HeatmapRowLabels, c \in HeatmapColLabels}
    \cup {MkObj([f \in {"r", "c", "v"} |->
                    IF f = "r" THEN Num(9) ELSE IF f = "c" THEN Str(<<49>>) ELSE v]) :
            v \in {Num(3), Null, Undef}}

HeatmapPar == [rowFeature |-> "r", colFeature |-> "c", valueFeature |-> "v"]

InitHeatmap ==
    \E objs \in SeqsUpTo(HeatmapObjects, MaxHeatmapRecords) : StartWith(objs, HeatmapPar)

NextHeatmap == CallBuildHeatmapData

SpecHeatmap == InitHeatmap /\ [][NextHeatmap]_vars

\* 0 + v1 + v2 + ... as the operator + adds: null counts as 0 and a value
\* that is absent makes the sum NaN.
RECURSIVE SumFromZero(_)
SumFromZero(vals) ==
    IF vals = <<>> THEN Num(0)
    ELSE JSAdd(SumFromZero(SubSeq(vals, 1, Len(vals) - 1)), vals[Len(vals)])

\* The values of the records whose labels are row and col.
CellValues(data, row, col) ==
    Column(SelectSeq(data, LAMBDA d : /\ Get(d, par.rowFeature) = row
                                      /\ Get(d, par.colFeature) = col),
           par.valueFeature)

DistinctLabelsOf(labels, values) ==
    /\ Range(labels) = Range(values)
    /\ \A i, j \in 1..Len(labels) : labels[i] = labels[j] => i = j

\* a is not after b: by their numbers when both coerce to numbers, by their
\* strings otherwise.
LabelNotAfter(a, b) ==
    IF ToNumber(a).k # "nan" /\ ToNumber(b).k # "nan"
    THEN ~NumLess(ToNumber(b), ToNumber(a))
    ELSE LocaleCompare(ToStringJS(a), ToStringJS(b)) <= 0

\* The labels that are not undefined are in ascending order, and an
\* undefined label is last.
SortedBySortFunction(labels) ==
    \A i, j \in 1..Len(labels) :
        i < j => /\ labels[i].k # "undef"
                 /\ labels[j].k # "undef" => LabelNotAfter(labels[i], labels[j])

\* All labels coerce to numbers, or none does.
OneKindOfLabel(labels) ==
    \/ \A i \in 1..Len(labels) : labels[i].k = "undef" \/ ~IsNaNJS(labels[i])
    \/ \A i \in 1..Len(labels) : labels[i].k = "undef" \/ IsNaNJS(labels[i])

\* C20 (as stated): the row and the column labels are the distinct values
\* of their feature, none twice, each list sorted ascending by sortFunction,
\* for every mix of labels.
C20_LabelsDistinctSorted ==
    (call = "buildHeatmapData") =>
        /\ DistinctLabelsOf(retVal.rowLabels, Column(argBefore, par.rowFeature))
        /\ DistinctLabelsOf(retVal.colLabels, Column(argBefore, par.colFeature))
        /\ SortedBySortFunction(retVal.rowLabels)
        /\ SortedBySortFunction(retVal.colLabels)

\* C20 (amended): the row and the column labels are the distinct values of
\* their feature, none twice, for every mix of labels; a list is sorted
\* ascending by sortFunction, a label for an absent value last, when its
\* labels all coerce to numbers or none does.
C20_LabelsDistinctSortedOneKind ==
    (call = "buildHeatmapData") =>
        /\ DistinctLabelsOf(retVal.rowLabels, Column(argBefore, par.rowFeature))
        /\ DistinctLabelsOf(retVal.colLabels, Column(argBefore, par.colFeature))
        /\ OneKindOfLabel(retVal.rowLabels) => SortedBySortFunction(retVal.rowLabels)
        /\ OneKindOfLabel(retVal.colLabels) => SortedBySortFunction(retVal.colLabels)

\* C20 witness: the row values 10, 9 and null came out as null, 9, 10: in
\* numeric order, null counting as 0.
C20_Witness ==
    /\ call = "buildHeatmapData"
    /\ Column(argBefore, "r") = <<Num(10), Num(9), Null>>
    /\ retVal.rowLabels = <<Null, Num(9), Num(10)>>

(***************************************************************************)
(* sortData on records whose key values are numbers, strings, null, NaN    *)
(* or missing                                                              *)
(***************************************************************************)

MaxSortRecords == 3

SortValues ==
    {Num(1), Num(2), Num(3), Str(<<97>>), Str(<<98>>), Null, Undef, NaN}

SortObjects == {MkObj([f \in {"n"} |-> v]) : v \in SortValues}

InitSort ==
    \E objs \in SeqsUpTo(SortObjects, MaxSortRecords), order \in {"asc", "desc"} :
        StartWith(objs, [DefaultPar EXCEPT !.key = "n", !.order = order])

NextSort == calls = 0 /\ CallSortData

SpecSort == InitSort /\ [][NextSort]_vars

\* The value a comes before the value b in the order asked for: both are
\* numbers, or both strings, and a is the smaller one for 'asc', the larger
\* one for 'desc'.
KeyBefore(a, b, order) ==
    LET lo == IF order = "asc" THEN a ELSE b
        hi == IF order = "asc" THEN b ELSE a
    IN  \/ TypeOf(a) = "number" /\ TypeOf(b) = "number" /\ NumLess(lo, hi)
        \/ TypeOf(a) = "string" /\ TypeOf(b) = "string" /\ LocaleCompare(lo.s, hi.s) < 0

\* Both values are numbers or both are strings.
SameSortableType(a, b) ==
    \/ TypeOf(a) = "number" /\ TypeOf(b) = "number"
    \/ TypeOf(a) = "string" /\ TypeOf(b) = "string"

\* The position in the array given of the record at position p of the array
\* returned.
InputPosition(p) ==
    CHOOSE i \in 1..Len(heap.arr[arg]) : heap.arr[arg][i] = heap.arr[ret][p]

\* The array returned holds the records of the array given, each once.
SameRecords ==
    /\ Len(heap.arr[ret]) = Len(heap.arr[arg])
    /\ \A i \in 1..Len(heap.arr[arg]) :
          Cardinality({p \in 1..Len(heap.arr[ret]) :
                          heap.arr[ret][p] = heap.arr[arg][i]}) = 1

\* Every key value is a number other than NaN, or every one is a string, or
\* none is a number or a string.
OneKindOfKey(data, key) ==
    \/ \A i \in 1..Len(data) :
          TypeOf(Get(data[i], key)) = "number" /\ Get(data[i], key).k # "nan"
    \/ \A i \in 1..Len(data) : TypeOf(Get(data[i], key)) = "string"
    \/ \A i \in 1..Len(data) :
          TypeOf(Get(data[i], key)) \notin {"number", "string"}

\* C21 (as stated): for every dataset, sortData returns a permutation of the
\* records given in which no record comes after one that its key value puts
\* behind it (two numbers or two strings, ascending for 'asc' and descending
\* for 'desc'), and two records of mixed or null key types stay in their
\* input order.
C21_SortedEveryDataset ==
    (call = "sortData" /\ calls = 1 /\ Len(argBefore) > 0) =>
        /\ SameRecords
        /\ \A p, q \in 1..Len(retVal) :
              p < q =>
                  /\ ~KeyBefore(Get(retVal[q], par.key), Get(retVal[p], par.key), par.order)
                  /\ ~SameSortableType(Get(retVal[p], par.key), Get(retVal[q], par.key))
                         => InputPosition(p) < InputPosition(q)

\* C21 (amended): when every key value is a number other than NaN, or every
\* one is a string, or none is a number or a string, sortData returns a
\* permutation of the records given, ascending by key value for 'asc' and
\* descending for 'desc', in which records that neither comes before the
\* other keep their input order.
C21_SortedOneKindOfKey ==
    (call = "sortData" /\ calls = 1 /\ Len(argBefore) > 0
        /\ OneKindOfKey(argBefore, par.key)) =>
        /\ SameRecords
        /\ \A p, q \in 1..Len(retVal) :
              p < q =>
                  /\ ~KeyBefore(Get(retVal[q], par.key), Get(retVal[p], par.key), par.order)
                  /\ ~KeyBefore(Get(retVal[p], par.key), Get(retVal[q], par.key), par.order)
                         => InputPosition(p) < InputPosition(q)

\* C21 witness: the records n = 3, 1, 2 sorted 'desc' came back as 3, 2, 1.
C21_Witness ==
    /\ call = "sortData"
    /\ calls = 1
    /\ par.order = "desc"
    /\ Column(argBefore, "n") = <<Num(3), Num(1), Num(2)>>
    /\ Column(retVal, "n") = <<Num(3), Num(2), Num(1)>>

(***************************************************************************)
(* The six chart methods, the renderer drawing or raising an error         *)
(***************************************************************************)

MaxChartRecords == 2

ChartObjects ==
    {MkObj([f \in {"x", "y"} |-> IF f = "x" THEN vx ELSE vy]) :
        vx \in {Num(1), Num(2), Null, Undef}, vy \in {Num(10), Null}}

ChartPar(render) ==
    [xFeature |-> "x", yFeature |-> "y", rowFeature |-> "x", colFeature |-> "y",
     valueFeature |-> "y", features |-> <<"x", "y">>, render |-> render]

InitCharts ==
    \E objs \in SeqsUpTo(ChartObjects, MaxChartRecords), render \in RenderOutcomes :
        StartWith(objs, ChartPar(render))

NextCharts ==
    \/ CallLinechart
    \/ CallBarchart
    \/ CallScatterplot
    \/ CallHeatmap
    \/ CallHistogram
    \/ CallTable

SpecCharts == InitCharts /\ [][NextCharts]_vars

ChartMethodNames ==
    {"_Linechart", "_Barchart", "_Scatterplot", "_Heatmap", "_Histogram", "_Table"}

\* C22: a chart method whose renderer raises an error writes one console
\* entry with its own name and the error, and raises the generic
\* no-possible-visualization error, never the renderer's error; a chart
\* method whose renderer returns writes nothing and raises nothing.
C22_FailureLoggedAndGeneric ==
    (call \in ChartMethodNames /\ calls = 1) =>
        IF par.render = "drawn"
        THEN thrown = "none" /\ console = <<>>
        ELSE /\ thrown = "No_possible_visualization"
             /\ console = <<[context |-> call, error |-> par.render]>>

\* C22 witness: the renderer of the table raised an error; _Table logged it
\* under its name and raised the generic error.
C22_Witness ==
    /\ call = "_Table"
    /\ calls = 1
    /\ par.render = "RenderError"
    /\ thrown = "No_possible_visualization"
    /\ console = <<[context |-> "_Table", error |-> "RenderError"]>>

(***************************************************************************)
(* The page with every control: one Setup call and a limited number of     *)
(* events of the user                                                      *)
(***************************************************************************)

MaxEvents == 3

\* x has a value (4) that lies outside the quartiles 5 and 6 but within 1.5
\* times their distance of them.
ControlDatasets ==
    {<<Point(Num(5), Num(1)), Point(Num(4), Num(2)), Point(Num(6), Num(4)),
       Point(Num(5), Num(2))>>}

\* What the user may leave in the outlier-threshold field: 0, nothing, 2.
ThresholdTexts == {<<48>>, <<>>, <<50>>}

InitControls ==
    /\ heap = EmptyHeap
    /\ ret = 0
    /\ retVal = <<>>
    /\ arg = 0
    /\ argBefore = <<>>
    /\ call = "none"
    /\ calls = 0
    /\ thrown = "none"
    /\ par = DefaultPar
    /\ console = <<>>
    /\ budget = MaxEvents
    /\ StaticsInitial

NextControls ==
    \/ \E objs \in ControlDatasets :
          setups = 0 /\ Setup(objs, SetupFeatures, <<"number", "number">>)
    \/ \E t \in ChartTypes : ChangeChartType(t)
    \/ ChangeXAxis("x")
    \/ ChangeYAxis("y")
    \/ ToggleNormalize
    \/ ToggleRemoveOutliers
    \/ \E text \in ThresholdTexts : InputOutlierThreshold(text)
    \/ ToggleApplyAggregation
    \/ ChangeAggregationMethod("sum")
    \/ ChangeRowFeature("x")
    \/ ChangeColFeature("y")
    \/ ChangeValFeature("y")
    \/ ChangeSortColumn("x")
    \/ ChangeSortOrder("desc")
    \/ ChangeFontSize(<<49, 52>>)
    \/ ChangeBarColor("#ff0000")
    \/ ChangeHistColor("#00ff00")
    \/ ChangeLsColor("#0000ff")
    \/ ChangeColorMap("blues")
    \/ ChangeMaxBins(<<53>>)
    \/ ToggleStats
    \/ AddFilterRow(1)
    \/ SelectFilterFeature(1, "y")
    \/ \E e \in FilterEntries : ApplyFilter(1, e.operator, e.value, 1)
    \/ RemoveFilterRow(1)

SpecControls == InitControls /\ [][NextControls]_vars

\* The step changed the value of a control, an option a control sets, or
\* the filters applied.
ControlChanged ==
    \/ controls' # controls
    \/ config' # config
    \/ filterUI'.filtersMap # filterUI.filtersMap

EnteredThreshold(text) ==
    IF text # <<>> /\ AllDigits(SelectSeq(text, LAMBDA c : c # ChDot))
    THEN StringToNumber(text)
    ELSE NaN

\* C27 (as stated): whenever updateChart removes outliers, the multiplier it
\* passes is the number in the threshold field when that is a valid number
\* >= 0, 0 included, and 1.5 when the field is empty or holds no number.
C27_ThresholdAsEntered ==
    (last.kind = "updateChart" /\ last.read.removeOutliers) =>
        /\ \E i \in 1..Len(last.stages) : last.stages[i].name = "removeOutliers"
        /\ last.threshold =
              (IF EnteredThreshold(last.read.outlierThreshold).k = "nan"
               THEN DefaultThreshold
               ELSE EnteredThreshold(last.read.outlierThreshold))

\* C28 (as stated): a scatter plot, heatmap, histogram or table is drawn
\* from data that updateChart has neither normalized nor removed outliers
\* from, whatever the state of the two checkboxes, which are hidden for
\* these chart types.
C28_HiddenProcessingNotApplied ==
    (last.kind = "updateChart"
        /\ last.chart \in {"_Scatterplot", "_Heatmap", "_Histogram", "_Table"}) =>
        \A i \in 1..Len(last.stages) :
            last.stages[i].name \notin {"removeOutliers", "applyNormalization"}

(***************************************************************************)
(* The filter panel: two rows, each applied, re-applied and removed        *)
(***************************************************************************)

MaxPanelRows == 2

MaxPanelIds == 3

\* y is a numeric column, x is not.
PanelDatasets ==
    {<<Point(Str(<<97>>), Num(1)), Point(Str(<<98>>), Num(2))>>}

PanelTypes == <<"number", "string">>

\* What the user has put in the operator dropdown and the value field (for x
\* in the value dropdown) when pressing Apply.
PanelEntries ==
    {[operator |-> ">", value |-> Str(<<49>>)], [operator |-> "<", value |-> Str(<<97>>)]}

NextFilterPanel ==
    \/ \E objs \in PanelDatasets : setups = 0 /\ Setup(objs, SetupFeatures, PanelTypes)
    \/ ChangeChartType("Table")
    \/ AddFilterRow(MaxPanelRows)
    \/ \E r \in 1..MaxPanelRows, f \in {"x", "y"} : SelectFilterFeature(r, f)
    \/ \E r \in 1..MaxPanelRows, e \in PanelEntries :
          ApplyFilter(r, e.operator, e.value, MaxPanelIds)
    \/ \E r \in 1..MaxPanelRows : RemoveFilterRow(r)

SpecFilterPanel == Init /\ [][NextFilterPanel]_vars

\* The rows of the panel that have been applied, in the order of their ids.
AppliedRows(ui) == {r \in 1..Len(ui.filterRows) : ui.filterRows[r].filterId # 0}

\* The filter list holds, for each applied row and for nothing else, one
\* filter, the one the row's Apply button made last, in the order in which
\* the rows were first applied.
OneFilterPerAppliedRow(ui, filters) ==
    /\ Len(filters) = Cardinality(AppliedRows(ui))
    /\ \A r, q \in AppliedRows(ui) :
          r # q => ui.filterRows[r].filterId # ui.filterRows[q].filterId
    /\ \A r \in AppliedRows(ui) :
          LET before == {q \in AppliedRows(ui) :
                            ui.filterRows[q].filterId < ui.filterRows[r].filterId}
          IN  <<filters[Cardinality(before) + 1]>> = ui.filterRows[r].applied

\* C26: after every click in the filter panel the filter list of updateChart
\* holds exactly one filter for each row applied and not removed, the one of
\* the row's latest Apply; a click on Apply or Remove leaves the filters of
\* the other rows as they were; and a row applied for the first time gets an
\* id larger than every id given before.
C26_OneFilterPerAppliedRow ==
    [][/\ OneFilterPerAppliedRow(filterUI', closure'.filters)
       /\ filterUI'.filtersMap # filterUI.filtersMap =>
             /\ last'.kind = "updateChart"
             /\ last'.filters = closure'.filters
       /\ filterUI'.filterIdCounter >= filterUI.filterIdCounter
       /\ \A r \in AppliedRows(filterUI') :
             \/ filterUI'.filterRows[r].filterId > filterUI.filterIdCounter
             \/ \E q \in AppliedRows(filterUI) :
                   /\ filterUI.filterRows[q].filterId = filterUI'.filterRows[r].filterId
                   /\ \/ filterUI.filterRows[q].applied = filterUI'.filterRows[r].applied
                      \/ /\ q = r
                         /\ Len(filterUI'.filterRows) = Len(filterUI.filterRows)
                         /\ \A o \in AppliedRows(filterUI) \ {r} :
                               filterUI'.filterRows[o] = filterUI.filterRows[o]]_vars

\* C26 witness: two rows applied, the first one a second time with other
\* values: two filters, the first row's still first and holding the values
\* of its second Apply.
C26_Witness ==
    /\ Len(filterUI.filterRows) = 2
    /\ filterUI.filterRows[1].filterId = 1
    /\ filterUI.filterRows[2].filterId = 2
    /\ filterUI.filterRows[1].feature = "y"
    /\ closure.filters =
          <<[column |-> "y", operator |-> "<", value |-> Str(<<97>>)],
            [column |-> "y", operator |-> ">", value |-> Str(<<49>>)]>>
    /\ last.filters = closure.filters

(***************************************************************************)
(* Several Setup calls, with datasets and declarations of every kind, and  *)
(* the user's events between them                                          *)
(***************************************************************************)

MaxScenarioSetups == 2

\* What Setup may be called with: a dataset of two numeric columns; one
\* whose column y is not declared as a number; no records; no numeric
\* column; fewer types than features.
SetupInputs ==
    {[objs |-> <<Point(Num(5), Num(1)), Point(Num(0), Num(2))>>,
      features |-> <<"y", "x">>, types |-> <<"number", "number">>],
     [objs |-> <<Point(Num(7), Str(<<97>>))>>,
      features |-> <<"y", "x">>, types |-> <<"string", "number">>],
     [objs |-> <<>>,
      features |-> <<"y", "x">>, types |-> <<"number", "number">>],
     [objs |-> <<Point(Num(5), Num(1))>>,
      features |-> <<"y", "x">>, types |-> <<"string", "string">>],
     [objs |-> <<Point(Num(5), Num(1))>>,
      features |-> <<"y", "x">>, types |-> <<"number">>]}

NextSetups ==
    \/ \E in \in SetupInputs :
          setups < MaxScenarioSetups /\ Setup(in.objs, in.features, in.types)
    \/ \E t \in {"Line Chart", "Table"} : ChangeChartType(t)
    \/ ToggleNormalize
    \/ AddFilterRow(1)
    \/ SelectFilterFeature(1, "y")
    \/ \E e \in FilterEntries : ApplyFilter(1, e.operator, e.value, 1)
    \/ RemoveFilterRow(1)

SpecSetups == Init /\ [][NextSetups]_vars

\* The step is a Setup call.
SetupCalled == setups' = setups + 1

\* C23 (as stated): a Setup call with an empty dataset, with no numeric
\* column detected, or with feature and type lists of different lengths
\* notifies the user and stops: it creates no controls and no chart
\* container and makes no chart-drawing call.
C23_BadInputAborts ==
    [][(SetupCalled /\ (\/ setupData' = <<>>
                        \/ Len(currentFeatures') # Len(currentTypes')
                        \/ identifyNumericColumns(setupData', currentFeatures',
                                                  currentTypes') = <<>>)) =>
          /\ last'.kind = "alert"
          /\ last'.chart = "none"
          /\ dom' = dom
          /\ controlsCreated' = controlsCreated
          /\ chartDiv' = chartDiv]_vars

\* C24: whatever Setup calls are made, at most one controls surface, one set
\* of listeners and one chart container are created: exactly one of each
\* once controlsCreated is true and chartDiv is set.
C24_CreatedAtMostOnce ==
    /\ dom.controlsSurfaces = (IF controlsCreated THEN 1 ELSE 0)
    /\ dom.listenerSets = (IF controlsCreated THEN 1 ELSE 0)
    /\ dom.chartContainers = (IF chartDiv = "null" THEN 0 ELSE 1)

\* C24 witness: two Setup calls have each got as far as updateChart, and
\* there is one controls surface, one set of listeners, one container.
C24_Witness ==
    /\ setups = 2
    /\ last.kind = "updateChart"
    /\ closure.data # currentData
    /\ dom = [controlsSurfaces |-> 1, chartContainers |-> 1, listenerSets |-> 1]

\* C29 (as stated): every chart-drawing call of updateChart is given the
\* chart container.
C29_DrawsOnChartDiv ==
    (last.kind = "updateChart" /\ last.chart # "none") => last.area = "chartDiv"

\* C30 (as stated): every run of updateChart clones the dataset of the
\* latest Setup call, passes on the numeric columns the classifier finds for
\* that dataset and its declarations, and applies the filters that are
\* applied in the filter panel.
C30_LatestState ==
    (last.kind = "updateChart") =>
        /\ last.source = setupData
        /\ Range(last.numericFeatures)
              = Range(identifyNumericColumns(setupData, currentFeatures, currentTypes))
        /\ last.filters = MapValues(filterUI.filtersMap)

====
